---------------------------- MODULE Spec2Model ----------------------------
(***************************************************************************)
(* A model of scripts/remodel.py of cmsgov: the one-shot batch process     *)
(* that downloads the Provider Data OpenAPI document, parses it, patches   *)
(* it (fix_provider_data_openapi), writes fixed.json, generates the model  *)
(* module, reads fixed.json back and generates the client module.          *)
(*                                                                         *)
(* Strings the code inspects character by character (path keys, operation  *)
(* descriptions) are sequences of one-character strings; strings it only   *)
(* compares or copies are TLA+ strings.  Python's None is the empty tuple  *)
(* and a present optional value x is the one-element tuple <<x>>.          *)
(***************************************************************************)
EXTENDS Integers, Sequences, FiniteSets, TLC

VARIABLES
    pc,              \* position of the run in main / update_model / update_client
    entry,           \* the function or test that is run
    todo,            \* the calls of the entry point not yet finished
    fs,              \* the files on disk: original, fixed.json, model.py, client.py
    open_api,        \* update_model's local open_api (None before the parse)
    client_open_api, \* update_client's local open_api (None before the read)
    exc,             \* the exception that ended the run (None when none)
    log,             \* the calls made so far in this run, in order
    test             \* the locals of the test being run (None outside a test)

vars == <<pc, entry, todo, fs, open_api, client_open_api, exc, log, test>>

----------------------------------------------------------------------------
(* Bounds *)

\* How many path keys a downloaded document has besides the required ones.
MaxExtraPaths == 1

\* In how many of its features a downloaded document departs from the plain
\* document.
MaxVariations == 1

----------------------------------------------------------------------------
(* Optional values and character strings *)

None == <<>>

Some(x) == <<x>>

\* Python's `value or default` on an optional sequence.
OrEmpty(opt) == IF opt = None THEN <<>> ELSE opt[1]

\* str.startswith
StartsWith(s, prefix) ==
    /\ Len(s) >= Len(prefix)
    /\ SubSeq(s, 1, Len(prefix)) = prefix

\* s[n:]
SliceFrom(s, n) == SubSeq(s, n + 1, Len(s))

\* `sub in s` for strings
Contains(s, sub) ==
    \E i \in 0..(Len(s) - Len(sub)) : SubSeq(s, i + 1, i + Len(sub)) = sub

----------------------------------------------------------------------------
(* Path keys *)

API_ROOT ==
    <<"/", "p", "r", "o", "v", "i", "d", "e", "r", "-", "d", "a", "t", "a",
      "/", "a", "p", "i", "/", "1">>

\* "/provider-data/api/1/", the prefix every path key must start with
PATH_PREFIX == API_ROOT \o <<"/">>

\* path[20:]: the number of characters cut off each path key
PREFIX_CUT == 20

METASTORE_SCHEMAS_DATASET_ITEMS ==
    <<"/", "m", "e", "t", "a", "s", "t", "o", "r", "e", "/", "s", "c", "h",
      "e", "m", "a", "s", "/", "d", "a", "t", "a", "s", "e", "t", "/", "i",
      "t", "e", "m", "s">>

METASTORE_SCHEMAS_DATASET_ITEMS_IDENTIFIER ==
    METASTORE_SCHEMAS_DATASET_ITEMS
    \o <<"/", "{", "i", "d", "e", "n", "t", "i", "f", "i", "e", "r", "}">>

DATASTORE_QUERY ==
    <<"/", "d", "a", "t", "a", "s", "t", "o", "r", "e", "/", "q", "u", "e",
      "r", "y">>

DOWNLOAD == <<"/", "d", "o", "w", "n", "l", "o", "a", "d">>

DATASTORE_QUERY_DOWNLOAD == DATASTORE_QUERY \o DOWNLOAD

DATASTORE_QUERY_DISTRIBUTION_ID ==
    DATASTORE_QUERY
    \o <<"/", "{", "d", "i", "s", "t", "r", "i", "b", "u", "t", "i", "o", "n",
         "I", "d", "}">>

DATASTORE_QUERY_DISTRIBUTION_ID_DOWNLOAD ==
    DATASTORE_QUERY_DISTRIBUTION_ID \o DOWNLOAD

DATASTORE_QUERY_DATASET_ID_INDEX ==
    DATASTORE_QUERY
    \o <<"/", "{", "d", "a", "t", "a", "s", "e", "t", "I", "d", "}", "/", "{",
         "i", "n", "d", "e", "x", "}">>

DATASTORE_QUERY_DATASET_ID_INDEX_DOWNLOAD ==
    DATASTORE_QUERY_DATASET_ID_INDEX \o DOWNLOAD

SEARCH == <<"/", "s", "e", "a", "r", "c", "h">>

SEARCH_FACETS == SEARCH \o <<"/", "f", "a", "c", "e", "t", "s">>

\* The six datastore query paths, in the order the code appends to their
\* GET parameter lists.
QueryAppendOrder ==
    <<DATASTORE_QUERY_DOWNLOAD,
      DATASTORE_QUERY,
      DATASTORE_QUERY_DISTRIBUTION_ID,
      DATASTORE_QUERY_DISTRIBUTION_ID_DOWNLOAD,
      DATASTORE_QUERY_DATASET_ID_INDEX,
      DATASTORE_QUERY_DATASET_ID_INDEX_DOWNLOAD>>

\* The six datastore query paths, in the order the code resolves their
\* pointers and visits their descriptions.
QueryPointerOrder ==
    <<DATASTORE_QUERY,
      DATASTORE_QUERY_DOWNLOAD,
      DATASTORE_QUERY_DISTRIBUTION_ID,
      DATASTORE_QUERY_DISTRIBUTION_ID_DOWNLOAD,
      DATASTORE_QUERY_DATASET_ID_INDEX,
      DATASTORE_QUERY_DATASET_ID_INDEX_DOWNLOAD>>

\* The names of the query parameters added to the GET operations.
QueryParameterNames ==
    <<"resources", "properties", "conditions", "joins", "groupings", "sorts">>

----------------------------------------------------------------------------
(* The paths mapping: an insertion-ordered dict, as a sequence of          *)
(* [key, item] entries with distinct keys.                                 *)

Keys(paths) == [i \in 1..Len(paths) |-> paths[i].key]

HasKey(paths, key) == \E i \in 1..Len(paths) : paths[i].key = key

IndexOf(paths, key) == CHOOSE i \in 1..Len(paths) : paths[i].key = key

\* paths[key]
GetItem(paths, key) == paths[IndexOf(paths, key)].item

\* paths.pop(key): the mapping without the key
PopKey(paths, key) ==
    LET i == IndexOf(paths, key)
    IN  SubSeq(paths, 1, i - 1) \o SubSeq(paths, i + 1, Len(paths))

\* paths[key] = item: an existing key keeps its place, a new one goes last
SetItem(paths, key, item) ==
    IF HasKey(paths, key)
    THEN [paths EXCEPT ![IndexOf(paths, key)].item = item]
    ELSE Append(paths, [key |-> key, item |-> item])

----------------------------------------------------------------------------
(* oapi.oas objects: records whose fields are the attributes the code      *)
(* reads or writes.  A Reference is a record with the one field ref.       *)

Schema(type_) == [type_ |-> Some(type_), any_of |-> None, description |-> None]

Reference(ref) == [ref |-> ref]

IsReference(object) == "ref" \in DOMAIN object

ObjectSchema(properties) ==
    [type_ |-> Some("object"), any_of |-> None, description |-> None,
     properties |-> properties]

ArraySchema(items) ==
    [type_ |-> Some("array"), any_of |-> None, description |-> None,
     items |-> items]

Described(schema, description) ==
    [schema EXCEPT !.description = Some(description)]

STRING_SCHEMA == Schema("string")

INTEGER_SCHEMA == Schema("integer")

OBJECT_SCHEMA == Schema("object")

ARRAY_SCHEMA == Schema("array")

Server(url, description) == [url |-> url, description |-> description]

Parameter(name, in_, required, style, schema, description) ==
    [name |-> name, in_ |-> in_, required |-> required, style |-> style,
     schema |-> schema, description |-> description]

Operation(summary, description, parameters, responses) ==
    [summary |-> summary, description |-> description,
     parameters |-> parameters, responses |-> responses]

\* responses with one "200" response whose application/json content has
\* the given schema
JsonOk(schema) ==
    "200" :> [content |-> ("application/json" :> [schema |-> schema])]

----------------------------------------------------------------------------
(* Exceptions and the outcome of a call that may raise *)

Exception(type, arg) == [type |-> type, arg |-> arg]

Return(doc) == [doc |-> doc, exc |-> None]

Raise(doc, type, arg) == [doc |-> doc, exc |-> Some(Exception(type, arg))]

\* The next statement runs only when the ones before it did not raise.
Then(outcome, Statement(_)) ==
    IF outcome.exc # None THEN outcome ELSE Statement(outcome.doc)

----------------------------------------------------------------------------
(* fix_provider_data_openapi, statement by statement.  Each operator takes *)
(* the document as the statements before it left it and gives the document *)
(* as it leaves it, with the exception it raised, if any.                  *)

SERVER_URL == "https://data.cms.gov/provider-data/api/1"

\* A faulty variant of AddServer: it tests `servers is None`, so an empty
\* servers list stays empty.
AddServerIfNone(doc) ==
    Return([doc EXCEPT !.servers =
        IF doc.servers = None
        THEN Some(<<Server(SERVER_URL, Some("CMS Provider Data API V1"))>>)
        ELSE @])

\* Add a server
AddServer(doc) ==
    Return([doc EXCEPT !.servers =
        IF doc.servers = None \/ doc.servers[1] = <<>>
        THEN Some(<<Server(SERVER_URL, Some("CMS Provider Data API V1"))>>)
        ELSE @])

DATASETS_SCHEMA ==
    [type_ |-> Some("array"), any_of |-> None,
     description |-> Some("An array of datasets."),
     items |-> Reference("#/components/schemas/dataset")]

\* A faulty variant of AddDatasetsSchema: schemas.setdefault, which keeps a
\* datasets schema the document already declares.
AddDatasetsSchemaIfAbsent(doc) ==
    Return([doc EXCEPT !.components.schemas =
        @ @@ ("datasets" :> DATASETS_SCHEMA)])

\* Create a model for an array of datasets
AddDatasetsSchema(doc) ==
    Return([doc EXCEPT !.components.schemas =
        ("datasets" :> DATASETS_SCHEMA) @@ @])

\* The body of the renaming loop for the keys from the i-th on: `paths` is
\* the mapping as the iterations before left it, `keys` the tuple of keys
\* taken before the loop started.
RECURSIVE RenameFrom(_, _, _)
RenameFrom(paths, keys, i) ==
    IF i > Len(keys) THEN [paths |-> paths, exc |-> None]
    ELSE LET path == keys[i]
         IN  IF ~StartsWith(path, PATH_PREFIX)
             THEN [paths |-> paths,
                   exc |-> Some(Exception("ValueError", path))]
             ELSE RenameFrom(
                      SetItem(PopKey(paths, path),
                              SliceFrom(path, PREFIX_CUT),
                              GetItem(paths, path)),
                      keys, i + 1)

\* A faulty variant of RemovePathPrefixes: it renames every prefixed key
\* and only then raises for the first key without the prefix.
RemovePathPrefixesThenRaise(doc) ==
    LET keys == Keys(doc.paths)
        Prefixed(key) == StartsWith(key, PATH_PREFIX)
        Unprefixed(key) == ~StartsWith(key, PATH_PREFIX)
        renamed == RenameFrom(doc.paths, SelectSeq(keys, Prefixed), 1)
        offending == SelectSeq(keys, Unprefixed)
    IN  [doc |-> [doc EXCEPT !.paths = renamed.paths],
         exc |-> IF offending = <<>> THEN None
                 ELSE Some(Exception("ValueError", offending[1]))]

\* Remove unnecessary path prefixes
RemovePathPrefixes(doc) ==
    LET renamed == RenameFrom(doc.paths, Keys(doc.paths), 1)
    IN  [doc |-> [doc EXCEPT !.paths = renamed.paths], exc |-> renamed.exc]

DATASET_UUID == "#/components/parameters/datasetUuid"

\* A faulty variant of KeepParameter: every reference is filtered out.
KeepParameterInline(parameter) == ~IsReference(parameter)

\* Filter out the copied `datasetUuid` parameter
KeepParameter(parameter) ==
    (~IsReference(parameter)) \/ parameter.ref # DATASET_UUID

\* The edits made to the copied path item
AllDatasetsItem(item) ==
    [item EXCEPT
        !.get.summary = "Get all datasets.",
        !.get.parameters = Some(SelectSeq(OrEmpty(@), KeepParameter)),
        !.get.responses["200"].content["application/json"].schema.ref =
            "#/components/schemas/datasets"]

\* A faulty variant of CopyDatasetItems: without deepcopy both keys hold the
\* same path item, and the edits show under both.
CopyDatasetItemsShared(doc) ==
    IF ~HasKey(doc.paths, METASTORE_SCHEMAS_DATASET_ITEMS_IDENTIFIER)
    THEN Raise(doc, "KeyError", METASTORE_SCHEMAS_DATASET_ITEMS_IDENTIFIER)
    ELSE LET shared == AllDatasetsItem(GetItem(
                 doc.paths, METASTORE_SCHEMAS_DATASET_ITEMS_IDENTIFIER))
         IN  Return([doc EXCEPT !.paths =
                 SetItem(SetItem(@, METASTORE_SCHEMAS_DATASET_ITEMS, shared),
                         METASTORE_SCHEMAS_DATASET_ITEMS_IDENTIFIER, shared)])

\* Add the metastore schemas dataset endpoint for retrieving *all* datasets
\* by copying the path for retrieving a single dataset
CopyDatasetItems(doc) ==
    IF ~HasKey(doc.paths, METASTORE_SCHEMAS_DATASET_ITEMS_IDENTIFIER)
    THEN Raise(doc, "KeyError", METASTORE_SCHEMAS_DATASET_ITEMS_IDENTIFIER)
    ELSE Return([doc EXCEPT !.paths =
            SetItem(@, METASTORE_SCHEMAS_DATASET_ITEMS,
                    AllDatasetsItem(GetItem(
                        @, METASTORE_SCHEMAS_DATASET_ITEMS_IDENTIFIER)))])

\* Add missing dataset attributes and datastore query resource properties
AddMissingProperties(doc) ==
    Return([doc EXCEPT
        !.components.schemas["dataset"].properties =
            ("landingPage" :> STRING_SCHEMA) @@ @,
        !.components.schemas["datastoreQuery"].properties["resources"]
            .items.properties = ("id" :> STRING_SCHEMA) @@ @])

\* The parameter created for one of the six names
QueryParameter(doc, parameter_name) ==
    Parameter(
        parameter_name, "query", FALSE, Some("deepObject"),
        Reference("#/components/schemas/datastoreQuery/properties/"
                  \o parameter_name),
        doc.components.schemas["datastoreQuery"]
            .properties[parameter_name].description)

QueryParameters(doc) ==
    [n \in 1..Len(QueryParameterNames) |->
        QueryParameter(doc, QueryParameterNames[n])]

\* paths with the GET operation of every path in `keys` replaced
MapGet(paths, keys, Change(_)) ==
    [i \in 1..Len(paths) |->
        IF \E k \in 1..Len(keys) : keys[k] = paths[i].key
        THEN [paths[i] EXCEPT !.item.get = Change(@)]
        ELSE paths[i]]

\* A faulty variant of AlignQueryParameters: it appends only to the lists of
\* /datastore/query and /datastore/query/download.
AlignQueryParametersOfTwo(doc) ==
    LET added == QueryParameters(doc)
        AppendAll(operation) ==
            [operation EXCEPT !.parameters = Some(OrEmpty(@) \o added)]
    IN  Return([doc EXCEPT !.paths =
            MapGet(@, <<DATASTORE_QUERY, DATASTORE_QUERY_DOWNLOAD>>,
                   AppendAll)])

\* Align GET and POST: resolve the six parameter lists, then append each
\* new parameter to each of them.  A list that is None fails the first
\* append made to it, after the appends to the lists before it.
AlignQueryParameters(doc) ==
    LET missing == {k \in 1..Len(QueryPointerOrder) :
                        ~HasKey(doc.paths, QueryPointerOrder[k])}
        first_missing == CHOOSE k \in missing : \A j \in missing : k <= j
        absent == {k \in 1..Len(QueryAppendOrder) :
                      GetItem(doc.paths, QueryAppendOrder[k]).get.parameters
                      = None}
        first_absent == CHOOSE k \in absent : \A j \in absent : k <= j
        added == QueryParameters(doc)
        AppendAll(operation) ==
            [operation EXCEPT !.parameters = Some(@[1] \o added)]
        AppendFirst(operation) ==
            [operation EXCEPT !.parameters = Some(Append(@[1], added[1]))]
    IN  IF missing # {}
        THEN Raise(doc, "JsonPointerException",
                   QueryPointerOrder[first_missing])
        ELSE IF absent # {}
        THEN Raise([doc EXCEPT !.paths =
                        MapGet(@, SubSeq(QueryAppendOrder, 1,
                                         first_absent - 1), AppendFirst)],
                   "AttributeError", QueryAppendOrder[first_absent])
        ELSE Return([doc EXCEPT !.paths =
                        MapGet(@, QueryAppendOrder, AppendAll)])

POST == <<"P", "O", "S", "T">>

\* A faulty variant of FixDescription: the description is removed whatever
\* it says.
FixDescriptionAlways(operation) == [operation EXCEPT !.description = None]

\* If the description just indicates we should reference the POST
\* operation, remove it.
FixDescription(operation) ==
    IF /\ operation.description # None
       /\ operation.description[1] # <<>>
       /\ Contains(operation.description[1], POST)
    THEN [operation EXCEPT !.description = None]
    ELSE operation

\* Fix datastore/query descriptions to reflect above modifications
FixQueryDescriptions(doc) ==
    LET missing == {k \in 1..Len(QueryPointerOrder) :
                        ~HasKey(doc.paths, QueryPointerOrder[k])}
        first_missing == CHOOSE k \in missing : \A j \in missing : k <= j
    IN  IF missing # {}
        THEN Raise([doc EXCEPT !.paths =
                        MapGet(@, SubSeq(QueryPointerOrder, 1,
                                         first_missing - 1), FixDescription)],
                   "JsonPointerException", QueryPointerOrder[first_missing])
        ELSE Return([doc EXCEPT !.paths =
                        MapGet(@, QueryPointerOrder, FixDescription)])

\* Fix component parameters
FixComponentParameters(doc) ==
    Return([doc EXCEPT
        !.components.parameters["datastoreDistributionIndex"].schema.type_ =
            Some("integer")])

\* A faulty variant of FixResponses: the alternatives are given in the other
\* order.
FixResponsesArrayFirst(doc) ==
    Return([doc EXCEPT
        !.components.responses["200JsonOrCsvQueryOk"]
            .content["application/json"].schema.properties["schema"] =
            [type_ |-> None, any_of |-> Some(<<Schema("array"), @>>),
             description |-> None]])

\* Fix responses
FixResponses(doc) ==
    Return([doc EXCEPT
        !.components.responses["200JsonOrCsvQueryOk"]
            .content["application/json"].schema.properties["schema"] =
            [type_ |-> None, any_of |-> Some(<<@, Schema("array")>>),
             description |-> None]])

\* total_type.any_of = (STRING_SCHEMA, INTEGER_SCHEMA); total_type.type_ = None
StringOrInteger(schema) ==
    [schema EXCEPT !.any_of = Some(<<STRING_SCHEMA, INTEGER_SCHEMA>>),
                   !.type_ = None]

\* results_type.any_of = (OBJECT_SCHEMA, ARRAY_SCHEMA); results_type.type_ = None
ObjectOrArray(schema) ==
    [schema EXCEPT !.any_of = Some(<<OBJECT_SCHEMA, ARRAY_SCHEMA>>),
                   !.type_ = None]

\* The properties of the 200 application/json response schema of a GET
ResponseProperties(operation) ==
    operation.responses["200"].content["application/json"].schema.properties

\* Fix search GET response data types
FixSearchGet(doc) ==
    LET Change(operation) ==
            [operation EXCEPT
                !.responses["200"].content["application/json"].schema
                    .properties =
                    [@ EXCEPT !["total"] = StringOrInteger(@),
                              !["results"] = ObjectOrArray(@)]]
    IN  IF ~HasKey(doc.paths, SEARCH)
        THEN Raise(doc, "JsonPointerException", SEARCH)
        ELSE Return([doc EXCEPT !.paths = MapGet(@, <<SEARCH>>, Change)])

\* A faulty variant of FixSearchFacetsGet: it keeps the results and total
\* the /search/facets response already declares.
FixSearchFacetsGetIfAbsent(doc) ==
    LET search == ResponseProperties(GetItem(doc.paths, SEARCH).get)
        Change(operation) ==
            [operation EXCEPT
                !.responses["200"].content["application/json"].schema
                    .properties =
                    @ @@ ("total" :> search["total"])
                    @@ ("results" :> search["results"])]
    IN  Return([doc EXCEPT !.paths = MapGet(@, <<SEARCH_FACETS>>, Change)])

\* Fix search facets GET response data types: its results and total are
\* the schema objects of the search GET response
FixSearchFacetsGet(doc) ==
    LET search == ResponseProperties(GetItem(doc.paths, SEARCH).get)
        Change(operation) ==
            [operation EXCEPT
                !.responses["200"].content["application/json"].schema
                    .properties =
                    ("total" :> search["total"])
                    @@ ("results" :> search["results"]) @@ @]
    IN  IF ~HasKey(doc.paths, SEARCH_FACETS)
        THEN Raise(doc, "JsonPointerException", SEARCH_FACETS)
        ELSE Return([doc EXCEPT
                        !.paths = MapGet(@, <<SEARCH_FACETS>>, Change)])

\* Fix facets items data type
FixFacetsItems(doc) ==
    Return([doc EXCEPT
        !.components.schemas["facets"].items.properties["total"] =
            StringOrInteger(@)])

\* The statements before the renaming loop
FixBeforePaths(openapi_document) ==
    Then(AddServer(openapi_document), AddDatasetsSchema)

\* The statements after the renaming loop
FixAfterPaths(openapi_document) ==
    Then(Then(Then(Then(Then(Then(Then(Then(
        CopyDatasetItems(openapi_document),
        AddMissingProperties),
        AlignQueryParameters),
        FixQueryDescriptions),
        FixComponentParameters),
        FixResponses),
        FixSearchGet),
        FixSearchFacetsGet),
        FixFacetsItems)

fix_provider_data_openapi(openapi_document) ==
    Then(Then(FixBeforePaths(openapi_document), RemovePathPrefixes),
         FixAfterPaths)

----------------------------------------------------------------------------
(* sob's serialize and oapi.oas.OpenAPI(dict): the document as JSON and    *)
(* back.  A JSON object is a function of its member names; an attribute    *)
(* that is None has no member, and type_, any_of, in_ and ref are written  *)
(* "type", "anyOf", "in" and "$ref".  The paths object keeps its order.    *)

\* The JSON object of the members <<name, optional value>> that are present
JsonObject(members) ==
    LET present == {i \in 1..Len(members) : members[i][2] # None}
    IN  [name \in {members[i][1] : i \in present} |->
            members[CHOOSE i \in present : members[i][1] = name][2][1]]

\* object.get(name): the optional value of a member
Member(object, name) ==
    IF name \in DOMAIN object THEN Some(object[name]) ELSE None

RECURSIVE MarshalSchema(_)
MarshalSchema(schema) ==
    IF IsReference(schema) THEN "$ref" :> schema.ref
    ELSE JsonObject(<<
        <<"type", schema.type_>>,
        <<"anyOf",
          IF schema.any_of = None THEN None
          ELSE Some([i \in DOMAIN schema.any_of[1] |->
                        MarshalSchema(schema.any_of[1][i])])>>,
        <<"description", schema.description>>,
        <<"items",
          IF "items" \in DOMAIN schema
          THEN Some(MarshalSchema(schema.items)) ELSE None>>,
        <<"properties",
          IF "properties" \in DOMAIN schema
          THEN Some([n \in DOMAIN schema.properties |->
                        MarshalSchema(schema.properties[n])])
          ELSE None>> >>)

RECURSIVE UnmarshalSchema(_)
UnmarshalSchema(json) ==
    IF "$ref" \in DOMAIN json THEN Reference(json["$ref"])
    ELSE LET any_of == Member(json, "anyOf")
             plain ==
                [type_ |-> Member(json, "type"),
                 any_of |->
                    IF any_of = None THEN None
                    ELSE Some([i \in DOMAIN any_of[1] |->
                                  UnmarshalSchema(any_of[1][i])]),
                 description |-> Member(json, "description")]
             items ==
                IF "items" \in DOMAIN json
                THEN "items" :> UnmarshalSchema(json["items"])
                ELSE [n \in {} |-> n]
             properties ==
                IF "properties" \in DOMAIN json
                THEN "properties" :>
                        [n \in DOMAIN json["properties"] |->
                            UnmarshalSchema(json["properties"][n])]
                ELSE [n \in {} |-> n]
         IN  plain @@ items @@ properties

MarshalParameter(parameter) ==
    IF IsReference(parameter) THEN "$ref" :> parameter.ref
    ELSE JsonObject(<<
        <<"name", Some(parameter.name)>>,
        <<"in", Some(parameter.in_)>>,
        <<"required", Some(parameter.required)>>,
        <<"style", parameter.style>>,
        <<"schema", Some(MarshalSchema(parameter.schema))>>,
        <<"description", parameter.description>> >>)

UnmarshalParameter(json) ==
    IF "$ref" \in DOMAIN json THEN Reference(json["$ref"])
    ELSE Parameter(json["name"], json["in"], json["required"],
                   Member(json, "style"), UnmarshalSchema(json["schema"]),
                   Member(json, "description"))

MarshalResponse(response) ==
    IF IsReference(response) THEN "$ref" :> response.ref
    ELSE "content" :>
            [media \in DOMAIN response.content |->
                "schema" :> MarshalSchema(response.content[media].schema)]

UnmarshalResponse(json) ==
    IF "$ref" \in DOMAIN json THEN Reference(json["$ref"])
    ELSE [content |->
            [media \in DOMAIN json["content"] |->
                [schema |->
                    UnmarshalSchema(json["content"][media]["schema"])]]]

MarshalOperation(operation) ==
    JsonObject(<<
        <<"summary", Some(operation.summary)>>,
        <<"description", operation.description>>,
        <<"parameters",
          IF operation.parameters = None THEN None
          ELSE Some([i \in DOMAIN operation.parameters[1] |->
                        MarshalParameter(operation.parameters[1][i])])>>,
        <<"responses",
          Some([code \in DOMAIN operation.responses |->
                   MarshalResponse(operation.responses[code])])>> >>)

UnmarshalOperation(json) ==
    LET parameters == Member(json, "parameters")
    IN  Operation(
            json["summary"],
            Member(json, "description"),
            IF parameters = None THEN None
            ELSE Some([i \in DOMAIN parameters[1] |->
                          UnmarshalParameter(parameters[1][i])]),
            [code \in DOMAIN json["responses"] |->
                UnmarshalResponse(json["responses"][code])])

MarshalServer(server) ==
    JsonObject(<< <<"url", Some(server.url)>>,
                  <<"description", server.description>> >>)

UnmarshalServer(json) == Server(json["url"], Member(json, "description"))

\* serialize(open_api)
Marshal(doc) ==
    JsonObject(<<
        <<"servers",
          IF doc.servers = None THEN None
          ELSE Some([i \in DOMAIN doc.servers[1] |->
                        MarshalServer(doc.servers[1][i])])>>,
        <<"paths",
          Some([i \in DOMAIN doc.paths |->
                   [key |-> doc.paths[i].key,
                    item |-> "get" :>
                        MarshalOperation(doc.paths[i].item.get)]])>>,
        <<"components", Some([
            schemas |->
                [n \in DOMAIN doc.components.schemas |->
                    MarshalSchema(doc.components.schemas[n])],
            parameters |->
                [n \in DOMAIN doc.components.parameters |->
                    MarshalParameter(doc.components.parameters[n])],
            responses |->
                [n \in DOMAIN doc.components.responses |->
                    MarshalResponse(doc.components.responses[n])]])>> >>)

\* oapi.oas.OpenAPI(openapi_document_dict)
Unmarshal(json) ==
    LET servers == Member(json, "servers")
    IN  [servers |->
            IF servers = None THEN None
            ELSE Some([i \in DOMAIN servers[1] |->
                          UnmarshalServer(servers[1][i])]),
         paths |->
            [i \in DOMAIN json["paths"] |->
                [key |-> json["paths"][i].key,
                 item |-> [get |->
                    UnmarshalOperation(json["paths"][i].item["get"])]]],
         components |-> [
            schemas |->
                [n \in DOMAIN json["components"].schemas |->
                    UnmarshalSchema(json["components"].schemas[n])],
            parameters |->
                [n \in DOMAIN json["components"].parameters |->
                    UnmarshalParameter(json["components"].parameters[n])],
            responses |->
                [n \in DOMAIN json["components"].responses |->
                    UnmarshalResponse(json["components"].responses[n])]]]

----------------------------------------------------------------------------
(* The documents the server may return.  Every one declares the nine paths *)
(* and the components the fix reads; they differ in what the fix tests or  *)
(* overwrites.                                                             *)

Chars_see_POST == <<"s", "e", "e", " ", "P", "O", "S", "T">>

Chars_Post == <<"P", "o", "s", "t">>

\* The descriptions a datastore query GET operation may carry
DescriptionChoices ==
    <<None, Some(<<>>), Some(Chars_see_POST), Some(Chars_Post)>>

ServersChoices ==
    {None,
     Some(<<>>),
     Some(<<Server("https://example.org/a", None)>>),
     Some(<<Server("https://example.org/b", Some("b")),
            Server("https://example.org/a", None)>>)}

FormatParameter ==
    Parameter("format", "query", FALSE, None, Schema("string"), None)

\* The parameter lists a single-dataset GET operation may declare
ItemParametersChoices ==
    {None,
     Some(<<Reference(DATASET_UUID)>>),
     Some(<<FormatParameter, Reference(DATASET_UUID),
            Reference("#/components/parameters/showReferenceIds"),
            Reference(DATASET_UUID)>>)}

\* variant 0..3 rotates the descriptions over the six query operations;
\* variant 4 leaves one of the six without a parameter list
QueryVariants == 0..4

\* The plain document: no servers, no datasets schema, the one datasetUuid
\* parameter, no types declared by /search/facets
PlainFeatures ==
    [servers |-> None,
     datasets_declared |-> FALSE,
     item_parameters |-> Some(<<Reference(DATASET_UUID)>>),
     query_variant |-> 0,
     facets_declared |-> FALSE]

Variations(f) ==
    (IF f.servers # PlainFeatures.servers THEN 1 ELSE 0)
    + (IF f.datasets_declared # PlainFeatures.datasets_declared THEN 1 ELSE 0)
    + (IF f.item_parameters # PlainFeatures.item_parameters THEN 1 ELSE 0)
    + (IF f.query_variant # PlainFeatures.query_variant THEN 1 ELSE 0)
    + (IF f.facets_declared # PlainFeatures.facets_declared THEN 1 ELSE 0)

Features ==
    {f \in [servers : ServersChoices,
            datasets_declared : BOOLEAN,
            item_parameters : ItemParametersChoices,
            query_variant : QueryVariants,
            facets_declared : BOOLEAN] : Variations(f) <= MaxVariations}

\* The parameters the six query GET operations declare, in pointer order
QueryOriginalParameters ==
    <<<<>>,
      <<FormatParameter>>,
      <<Reference("#/components/parameters/datastoreDistributionUuid")>>,
      <<Reference("#/components/parameters/datastoreDistributionUuid"),
        FormatParameter>>,
      <<Reference(DATASET_UUID),
        Reference("#/components/parameters/datastoreDistributionIndex")>>,
      <<Reference(DATASET_UUID),
        Reference("#/components/parameters/datastoreDistributionIndex"),
        FormatParameter>> >>

QueryOperation(f, k) ==
    Operation(
        "Query one or more datastore resources",
        DescriptionChoices[((k + f.query_variant) % 4) + 1],
        IF f.query_variant = 4 /\ k = 3 THEN None
        ELSE Some(QueryOriginalParameters[k]),
        "200" :> Reference("#/components/responses/200JsonOrCsvQueryOk"))

SearchOperation ==
    Operation(
        "Search the catalog", None, Some(<<>>),
        JsonOk(ObjectSchema(
            [total |-> Described(Schema("integer"), "Total search results."),
             results |-> Described(Schema("object"), "The results."),
             facets |-> Reference("#/components/schemas/facets")])))

SearchFacetsOperation(f) ==
    Operation(
        "Retrieve search facet information", None, Some(<<>>),
        JsonOk(ObjectSchema(
            IF f.facets_declared
            THEN [total |-> Schema("number"),
                  results |-> Schema("array"),
                  facets |-> Reference("#/components/schemas/facets")]
            ELSE [facets |-> Reference("#/components/schemas/facets")])))

DatasetItemOperation(f) ==
    Operation(
        "Get a single dataset.", None, f.item_parameters,
        JsonOk(Reference("#/components/schemas/dataset")))

\* The nine paths the fix reads, under the prefixed keys of the original
RequiredPaths(f) ==
    <<[key |-> API_ROOT \o METASTORE_SCHEMAS_DATASET_ITEMS_IDENTIFIER,
       item |-> [get |-> DatasetItemOperation(f)]]>>
    \o [k \in 1..Len(QueryPointerOrder) |->
           [key |-> API_ROOT \o QueryPointerOrder[k],
            item |-> [get |-> QueryOperation(f, k)]]]
    \o <<[key |-> API_ROOT \o SEARCH, item |-> [get |-> SearchOperation]],
         [key |-> API_ROOT \o SEARCH_FACETS,
          item |-> [get |-> SearchFacetsOperation(f)]]>>

\* Keys a document may have besides the required ones: an ordinary key, a
\* key whose remainder is itself a prefixed key of the document, the key of
\* the all-datasets path, a key without the prefix, and the prefix without
\* its final "/".
ExtraKeys ==
    <<API_ROOT \o <<"/", "x">>,
      API_ROOT \o API_ROOT \o SEARCH,
      API_ROOT \o METASTORE_SCHEMAS_DATASET_ITEMS,
      <<"/", "x">>,
      API_ROOT>>

ExtraSummaries == <<"extra 1", "extra 2", "extra 3", "extra 4", "extra 5">>

\* An extra path item has the shape of the search path item, so that the
\* fix can read it wherever a key collision puts it, its own summary, and a
\* description that mentions POST
ExtraPath(n) ==
    [key |-> ExtraKeys[n],
     item |-> [get |-> [SearchOperation EXCEPT
                            !.summary = ExtraSummaries[n],
                            !.description = Some(Chars_see_POST)]]]

\* Which extra keys a document has, no key twice, and where they stand:
\* before the required paths or after them
ExtraChoices ==
    LET Tuples == UNION {[1..n -> 1..Len(ExtraKeys)] : n \in 0..MaxExtraPaths}
    IN  {c \in [keys : Tuples, front : BOOLEAN] :
            \A i, j \in 1..Len(c.keys) : i # j => c.keys[i] # c.keys[j]}

DatastoreQuerySchema ==
    ObjectSchema(
        [resources |->
            [type_ |-> Some("array"), any_of |-> None,
             description |-> Some("Resources to query against."),
             items |-> ObjectSchema([alias |-> Schema("string")])],
         properties |-> Described(Schema("array"), "Properties to return."),
         conditions |-> Described(Schema("array"), "Conditions to filter by."),
         joins |-> Described(Schema("array"), "Joins to perform."),
         groupings |-> Schema("array"),
         sorts |-> Described(Schema("array"), "Result sorting directives."),
         limit |-> Schema("integer")])

OriginalComponents(f) ==
    [schemas |->
        (IF f.datasets_declared
         THEN "datasets" :> Schema("object") ELSE [n \in {} |-> n])
        @@ [dataset |->
                ObjectSchema([title |-> Schema("string"),
                              identifier |-> Schema("string")]),
            datastoreQuery |-> DatastoreQuerySchema,
            facets |->
                ArraySchema(ObjectSchema(
                    [type |-> Schema("string"),
                     name |-> Schema("string"),
                     total |-> Schema("integer")]))],
     parameters |->
        [datastoreDistributionIndex |->
            Parameter("index", "path", TRUE, None, Schema("string"),
                      Some("The index of a distribution.")),
         datasetUuid |->
            Parameter("datasetId", "path", TRUE, None, Schema("string"),
                      None)],
     responses |->
        "200JsonOrCsvQueryOk" :>
            [content |-> ("application/json" :> [schema |->
                ObjectSchema(
                    [results |-> Schema("array"),
                     count |-> Schema("integer"),
                     schema |->
                        Described(Schema("object"),
                                  "Schema of all resources queried.")])])]]

\* The document with features f and extra keys c
OriginalDocument(f, c) ==
    [servers |-> f.servers,
     paths |->
        LET extra == [i \in 1..Len(c.keys) |-> ExtraPath(c.keys[i])]
        IN  IF c.front THEN extra \o RequiredPaths(f)
            ELSE RequiredPaths(f) \o extra,
     components |-> OriginalComponents(f)]

OriginalDocuments ==
    {OriginalDocument(f, c) : f \in Features, c \in ExtraChoices}

----------------------------------------------------------------------------
(* Files and their contents.  The text of a file is known by what the two  *)
(* parsers make of it: whether json.loads parses it (or raises             *)
(* JSONDecodeError), whether yaml.safe_load parses it (or raises           *)
(* YAMLError), the value the parser gives (None when neither parses), its  *)
(* first character, and whether it is the text as downloaded or a JSON     *)
(* text written with indent=4.                                             *)

Text(json, yaml, value, first, form) ==
    [json |-> json, yaml |-> yaml, value |-> value, first |-> first,
     form |-> form]

\* json.dumps(value, indent=4), also what serialize(open_api, indent=4) gives
JsonDumps(value) == Text(TRUE, TRUE, Some(value), "{", "indent4")

Chars_original == <<"o", "r", "i", "g", "i", "n", "a", "l">>

Chars_fixed_json == <<"f", "i", "x", "e", "d", ".", "j", "s", "o", "n">>

Chars_json == <<".", "j", "s", "o", "n">>

Chars_yaml == <<".", "y", "a", "m", "l">>

Chars_yml == <<".", "y", "m", "l">>

\* str.endswith
EndsWith(s, suffix) ==
    /\ Len(s) >= Len(suffix)
    /\ SubSeq(s, Len(s) - Len(suffix) + 1, Len(s)) = suffix

\* str.lower
LowerChar(c) ==
    LET upper ==
            <<"A", "B", "C", "D", "E", "F", "G", "H", "I", "J", "K", "L",
              "M", "N", "O", "P", "Q", "R", "S", "T", "U", "V", "W", "X",
              "Y", "Z">>
        lower ==
            <<"a", "b", "c", "d", "e", "f", "g", "h", "i", "j", "k", "l",
              "m", "n", "o", "p", "q", "r", "s", "t", "u", "v", "w", "x",
              "y", "z">>
    IN  IF \E i \in 1..Len(upper) : upper[i] = c
        THEN lower[CHOOSE i \in 1..Len(upper) : upper[i] = c]
        ELSE c

Lower(s) == [i \in 1..Len(s) |-> LowerChar(s[i])]

\* Path.suffix of a file name: from its last "." on, when that is neither
\* the first nor the last character
Suffix(name) ==
    LET dots == {i \in 2..Len(name) : name[i] = "."}
        last == CHOOSE i \in dots : \A j \in dots : j <= i
    IN  IF dots = {} \/ name[Len(name)] = "." THEN <<>>
        ELSE SubSeq(name, last, Len(name))

IsDigit(c) == c \in {"0", "1", "2", "3", "4", "5", "6", "7", "8", "9"}

\* data.startswith(("{", "[", '"', "0", ..., "9"))
LooksLikeJson(data) == data.first \in {"{", "[", "\""} \/ IsDigit(data.first)

\* A faulty variant of DownloadPath: the YAML parser is tried first.
DownloadPathYamlFirst(data, path) ==
    IF Lower(Suffix(path)) \in {Chars_json, Chars_yaml, Chars_yml} THEN path
    ELSE IF data.yaml THEN path \o Chars_yaml
    ELSE IF data.json THEN path \o Chars_json
    ELSE IF LooksLikeJson(data) THEN path \o Chars_json
    ELSE path \o Chars_yaml

\* The path download writes to
DownloadPath(data, path) ==
    IF Lower(Suffix(path)) \in {Chars_json, Chars_yaml, Chars_yml} THEN path
    ELSE IF data.json THEN path \o Chars_json
    ELSE IF data.yaml THEN path \o Chars_yaml
    ELSE IF LooksLikeJson(data) THEN path \o Chars_json
    ELSE path \o Chars_yaml

\* A faulty variant of download: JSONDecodeError is not suppressed.
download_unsuppressed(response, path) ==
    IF response.error # None THEN [file |-> None, exc |-> response.error]
    ELSE LET data == response.data[1]
             final == DownloadPath(data, path)
         IN  IF Lower(Suffix(final)) = Chars_json /\ ~data.json
             THEN [file |-> None,
                   exc |-> Some(Exception("JSONDecodeError", final))]
             ELSE [file |-> Some(
                      [path |-> final,
                       data |-> IF Lower(Suffix(final)) = Chars_json
                                THEN JsonDumps(data.value[1])
                                ELSE data]),
                   exc |-> None]

\* download(url, path): the file written, or the exception urlopen raised
download(response, path) ==
    IF response.error # None THEN [file |-> None, exc |-> response.error]
    ELSE LET data == response.data[1]
             final == DownloadPath(data, path)
         IN  [file |-> Some(
                 [path |-> final,
                  data |-> IF Lower(Suffix(final)) = Chars_json /\ data.json
                           THEN JsonDumps(data.value[1])
                           ELSE data]),
              exc |-> None]

\* Where c stands last in s, and first; 0 when it does not
LastIndexOf(s, c) ==
    LET at == {i \in 1..Len(s) : s[i] = c}
    IN  IF at = {} THEN 0 ELSE CHOOSE i \in at : \A j \in at : j <= i

FirstIndexOf(s, c) ==
    LET at == {i \in 1..Len(s) : s[i] = c}
    IN  IF at = {} THEN 0 ELSE CHOOSE i \in at : \A j \in at : i <= j

\* str.rstrip(c)
RStrip(s, c) ==
    LET keep == {i \in 1..Len(s) : s[i] # c}
    IN  IF keep = {} THEN <<>>
        ELSE SubSeq(s, 1, CHOOSE i \in keep : \A j \in keep : j <= i)

\* str.split(c)
RECURSIVE Split(_, _)
Split(s, c) ==
    LET i == FirstIndexOf(s, c)
    IN  IF i = 0 THEN <<s>>
        ELSE <<SubSeq(s, 1, i - 1)>> \o Split(SliceFrom(s, i), c)

\* urlparse(url).query: what stands between the first "?" and the first "#"
UrlQuery(url) ==
    LET hash == FirstIndexOf(url, "#")
        head == IF hash = 0 THEN url ELSE SubSeq(url, 1, hash - 1)
        mark == FirstIndexOf(head, "?")
    IN  IF mark = 0 THEN <<>> ELSE SliceFrom(head, mark)

\* parse_qs(query_str), as the fields name=value in their order; a field
\* without "=" or with a blank value is dropped
ParseQs(query_str) ==
    LET fields == Split(query_str, "&")
        kept == SelectSeq(fields,
                    LAMBDA f : /\ FirstIndexOf(f, "=") # 0
                               /\ FirstIndexOf(f, "=") < Len(f))
    IN  [i \in 1..Len(kept) |->
            [name |-> SubSeq(kept[i], 1, FirstIndexOf(kept[i], "=") - 1),
             value |-> SliceFrom(kept[i], FirstIndexOf(kept[i], "="))]]

Chars_format == <<"f", "o", "r", "m", "a", "t">>

\* query.get("format", query.get("format_", (None,)))[0]
QueryFormat(query) ==
    LET First(name) ==
            query[CHOOSE i \in 1..Len(query) :
                     /\ query[i].name = name
                     /\ \A j \in 1..(i - 1) : query[j].name # name].value
        Has(name) == \E i \in 1..Len(query) : query[i].name = name
    IN  IF Has(Chars_format) THEN Some(First(Chars_format))
        ELSE IF Has(Chars_format \o <<"_">>)
        THEN Some(First(Chars_format \o <<"_">>))
        ELSE None

\* A faulty variant of UrlFormat: the file extension is taken as it is
\* written.
UrlFormatAsWritten(url) ==
    LET stripped == RStrip(url, "/")
        segment == SliceFrom(stripped, LastIndexOf(stripped, "/"))
        dot == LastIndexOf(segment, ".")
        base_file_name == IF dot = 0 THEN <<>> ELSE SubSeq(segment, 1, dot - 1)
        format_ == SliceFrom(segment, dot)
    IN  IF base_file_name # <<>> THEN Some(format_)
        ELSE IF UrlQuery(url) # <<>> THEN QueryFormat(ParseQs(UrlQuery(url)))
        ELSE None

\* The format update_openapi_original makes out of the URL
UrlFormat(url) ==
    LET stripped == RStrip(url, "/")
        segment == SliceFrom(stripped, LastIndexOf(stripped, "/"))
        dot == LastIndexOf(segment, ".")
        base_file_name == IF dot = 0 THEN <<>> ELSE SubSeq(segment, 1, dot - 1)
        format_ == SliceFrom(segment, dot)
    IN  IF base_file_name # <<>> THEN Some(Lower(format_))
        ELSE IF UrlQuery(url) # <<>> THEN QueryFormat(ParseQs(UrlQuery(url)))
        ELSE None

\* f"original{extension}"
OriginalName(url, format_) ==
    LET given == IF format_ # None /\ format_[1] # <<>> THEN format_
                 ELSE UrlFormat(url)
    IN  IF given \in {Some(Tail(Chars_json)), Some(Tail(Chars_yaml)),
                      Some(Tail(Chars_yml))}
        THEN Chars_original \o <<".">> \o given[1]
        ELSE Chars_original

\* OPENAPI_DOCUMENT_URL[PROVIDER_DATA_V1]
OPENAPI_DOCUMENT_URL ==
    <<"h", "t", "t", "p", "s", ":", "/", "/", "d", "a", "t", "a", ".", "c",
      "m", "s", ".", "g", "o", "v", "/", "p", "r", "o", "v", "i", "d", "e",
      "r", "-", "d", "a", "t", "a", "/", "a", "p", "i", "/", "1">>

\* update_openapi_original(name, format_), for the document at url
update_openapi_original(url, format_, response) ==
    download(response, OriginalName(url, format_))

\* A faulty variant of get_openapi: the path is not lower-cased.
get_openapi_as_written(file) ==
    IF \/ EndsWith(file.path, Chars_yaml)
       \/ EndsWith(file.path, Chars_yml)
    THEN IF ~file.data.yaml
         THEN Raise(None, "YAMLError", file.path)
         ELSE Return(Unmarshal(file.data.value[1]))
    ELSE IF ~file.data.json
         THEN Raise(None, "JSONDecodeError", file.path)
         ELSE Return(Unmarshal(file.data.value[1]))

\* get_openapi(openapi_document_path)
get_openapi(file) ==
    IF \/ EndsWith(Lower(file.path), Chars_yaml)
       \/ EndsWith(Lower(file.path), Chars_yml)
    THEN IF ~file.data.yaml
         THEN Raise(None, "YAMLError", file.path)
         ELSE Return(Unmarshal(file.data.value[1]))
    ELSE IF ~file.data.json
         THEN Raise(None, "JSONDecodeError", file.path)
         ELSE Return(Unmarshal(file.data.value[1]))

\* A faulty variant of DefaultUrl: the url of the last server is taken.
DefaultUrlOfLast(doc) ==
    IF doc.servers # None /\ doc.servers[1] # <<>>
    THEN doc.servers[1][Len(doc.servers[1])].url ELSE ""

\* The url update_client gives the client by default
DefaultUrl(doc) ==
    IF doc.servers # None /\ doc.servers[1] # <<>>
    THEN doc.servers[1][1].url ELSE ""

----------------------------------------------------------------------------
(* What urlopen may give *)

\* One document is also served as YAML
YamlDocument ==
    OriginalDocument(PlainFeatures, [keys |-> <<>>, front |-> FALSE])

Responses ==
    {[error |-> Some(Exception("URLError", <<>>)), data |-> None]}
    \cup {[error |-> None, data |-> Some(data)] : data \in
            {Text(TRUE, TRUE, Some(Marshal(d)), "{", "raw") :
                d \in OriginalDocuments}
            \cup {Text(FALSE, TRUE, Some(Marshal(YamlDocument)), "o", "raw"),
                  Text(FALSE, FALSE, None, "{", "raw"),
                  Text(FALSE, FALSE, None, "<", "raw")}}

\* A fixed.json an earlier run may have left behind
StaleDocument ==
    [servers |-> Some(<<Server("https://stale.example.org", None)>>),
     paths |-> <<>>,
     components |-> [schemas |-> [n \in {} |-> n],
                     parameters |-> [n \in {} |-> n],
                     responses |-> [n \in {} |-> n]]]

----------------------------------------------------------------------------
(* The run *)

UpdateModel(fix_openapi) == [call |-> "update_model", fix_openapi |-> fix_openapi]

UpdateClient == [call |-> "update_client", fix_openapi |-> None]

\* A faulty variant of main: update_client is called first.
main_client_first ==
    <<UpdateClient, UpdateModel(Some("fix_provider_data_openapi"))>>

\* main: the calls it makes, in order
main == <<UpdateModel(Some("fix_provider_data_openapi")), UpdateClient>>

\* update_model called without a callback
update_model_alone == <<UpdateModel(None)>>

Program(e) == IF e = "main" THEN main ELSE update_model_alone

FirstLabel(c) ==
    IF c.call = "update_model" THEN "update_openapi_original"
    ELSE "get_openapi_fixed"

\* pc when the current call starts, or "done" when none is left
Start(calls) == IF calls = <<>> THEN "done" ELSE FirstLabel(Head(calls))

Init ==
    /\ entry \in {"main", "update_model"}
    /\ todo = Program(entry)
    /\ pc = Start(todo)
    /\ fs \in [original : {None},
               fixed : {None, Some(JsonDumps(Marshal(StaleDocument)))},
               model_py : {None},
               client_py : {None}]
    /\ open_api = None
    /\ client_open_api = None
    /\ exc = None
    /\ log = <<>>
    /\ test = None

\* A faulty variant of Propagate: the exception is caught and the run goes
\* on to write fixed.json.
Suppress(e) ==
    /\ pc' = "write_fixed"
    /\ exc' = e

\* An exception propagates out of the run: nothing further is called
Propagate(e) ==
    /\ pc' = "raised"
    /\ exc' = e

\* update_model: original = update_openapi_original(name)
Download ==
    /\ pc = "update_openapi_original"
    /\ \E response \in Responses :
          LET r == update_openapi_original(OPENAPI_DOCUMENT_URL, None,
                                           response)
          IN  IF r.exc # None
              THEN Propagate(r.exc) /\ UNCHANGED fs
              ELSE /\ fs' = [fs EXCEPT !.original = r.file]
                   /\ pc' = "get_openapi"
                   /\ UNCHANGED exc
    /\ log' = Append(log, "download")
    /\ UNCHANGED <<test, entry, todo, open_api, client_open_api>>

\* update_model: open_api = get_openapi(original)
Parse ==
    /\ pc = "get_openapi"
    /\ LET r == get_openapi(fs.original[1])
       IN  IF r.exc # None
           THEN Propagate(r.exc) /\ UNCHANGED open_api
           ELSE /\ open_api' = Some(r.doc)
                /\ pc' = "fix_openapi"
                /\ UNCHANGED exc
    /\ log' = Append(log, "get_openapi")
    /\ UNCHANGED <<test, entry, todo, fs, client_open_api>>

\* A faulty variant of CallFix: the callback is never called.
CallFixNever ==
    /\ pc = "fix_openapi"
    /\ pc' = "write_fixed"
    /\ UNCHANGED <<test, entry, todo, fs, open_api, client_open_api, exc, log>>

\* update_model: if fix_openapi is not None: fix_openapi(open_api).  The
\* callback starts with the statements before its renaming loop; it works
\* on the document in place.
CallFix ==
    /\ pc = "fix_openapi"
    /\ IF Head(todo).fix_openapi = None
       THEN /\ pc' = "write_fixed"
            /\ UNCHANGED <<open_api, exc, log>>
       ELSE LET r == FixBeforePaths(open_api[1])
            IN  /\ open_api' = Some(r.doc)
                /\ log' = Append(log, "fix_openapi")
                /\ IF r.exc # None
                   THEN Propagate(r.exc)
                   ELSE pc' = "fix_paths" /\ UNCHANGED exc
    /\ UNCHANGED <<test, entry, todo, fs, client_open_api>>

\* fix_provider_data_openapi: the renaming loop
FixPaths ==
    /\ pc = "fix_paths"
    /\ LET r == RemovePathPrefixes(open_api[1])
       IN  /\ open_api' = Some(r.doc)
           /\ IF r.exc # None
              THEN Propagate(r.exc)
              ELSE pc' = "fix_patches" /\ UNCHANGED exc
    /\ UNCHANGED <<test, entry, todo, fs, client_open_api, log>>

\* fix_provider_data_openapi: the statements after the renaming loop, and
\* the return to update_model
FixPatches ==
    /\ pc = "fix_patches"
    /\ LET r == FixAfterPaths(open_api[1])
       IN  /\ open_api' = Some(r.doc)
           /\ IF r.exc # None
              THEN Propagate(r.exc)
              ELSE pc' = "write_fixed" /\ UNCHANGED exc
    /\ UNCHANGED <<test, entry, todo, fs, client_open_api, log>>

\* update_model: fixed_io.write(serialize(open_api, indent=4))
WriteFixed ==
    /\ pc = "write_fixed"
    /\ fs' = [fs EXCEPT !.fixed = Some(JsonDumps(Marshal(open_api[1])))]
    /\ pc' = "write_model_module"
    /\ log' = Append(log, "write_fixed")
    /\ UNCHANGED <<test, entry, todo, open_api, client_open_api, exc>>

\* update_model: oapi.write_model_module(model_py, open_api=open_api)
WriteModel ==
    /\ pc = "write_model_module"
    /\ fs' = [fs EXCEPT !.model_py = Some([open_api |-> open_api[1]])]
    /\ todo' = Tail(todo)
    /\ pc' = Start(Tail(todo))
    /\ log' = Append(log, "write_model_module")
    /\ UNCHANGED <<test, entry, open_api, client_open_api, exc>>

\* update_client: open_api = get_openapi(OPENAPI_PATH / name / "fixed.json")
ReadFixed ==
    /\ pc = "get_openapi_fixed"
    /\ IF fs.fixed = None
       THEN Propagate(Some(Exception("FileNotFoundError", Chars_fixed_json)))
            /\ UNCHANGED client_open_api
       ELSE LET r == get_openapi([path |-> Chars_fixed_json,
                                  data |-> fs.fixed[1]])
            IN  IF r.exc # None
                THEN Propagate(r.exc) /\ UNCHANGED client_open_api
                ELSE /\ client_open_api' = Some(r.doc)
                     /\ pc' = "write_client_module"
                     /\ UNCHANGED exc
    /\ log' = Append(log, "get_openapi_fixed")
    /\ UNCHANGED <<test, entry, todo, fs, open_api>>

\* update_client: oapi.write_client_module(client_py, open_api=open_api, ...)
WriteClient ==
    /\ pc = "write_client_module"
    /\ fs' = [fs EXCEPT !.client_py = Some(
                [open_api |-> client_open_api[1],
                 url |-> DefaultUrl(client_open_api[1]),
                 retry_number_of_attempts |-> 3])]
    /\ todo' = Tail(todo)
    /\ pc' = Start(Tail(todo))
    /\ log' = Append(log, "write_client_module")
    /\ UNCHANGED <<test, entry, open_api, client_open_api, exc>>

Next ==
    \/ Download
    \/ Parse
    \/ CallFix
    \/ FixPaths
    \/ FixPatches
    \/ WriteFixed
    \/ WriteModel
    \/ ReadFixed
    \/ WriteClient

Spec == Init /\ [][Next]_vars

\* No file has been written
NoFiles ==
    [original |-> None, fixed |-> None, model_py |-> None, client_py |-> None]

----------------------------------------------------------------------------
(* The functions of the script called on their own: download and get_openapi *)
(* on any path, update_openapi_original for any URL, update_client on the  *)
(* fixed.json it finds.                                                    *)

\* The URLs update_openapi_original is tried on, besides the configured one
Urls ==
    <<<<"h", "t", "t", "p", "s", ":", "/", "/", "d", "a", "t", "a", ".",
        "c", "m", "s", ".", "g", "o", "v", "/", "p", "r", "o", "v", "i",
        "d", "e", "r", "-", "d", "a", "t", "a", "/", "a", "p", "i", "/",
        "1", "/">>,
      <<"h", "t", "t", "p", ":", "/", "/", "h", "/", "o", "p", "e", "n",
        "a", "p", "i", ".", "j", "s", "o", "n">>,
      <<"h", "t", "t", "p", ":", "/", "/", "h", "/", "o", "p", "e", "n",
        "a", "p", "i", ".", "Y", "A", "M", "L">>,
      <<"h", "t", "t", "p", ":", "/", "/", "h", "/", "o", "p", "e", "n",
        "a", "p", "i", ".", "y", "m", "l", "/", "/">>,
      <<"h", "t", "t", "p", ":", "/", "/", "h", "/", "v", "1", ".", "0",
        "/", "d", "o", "c", ".", "t", "x", "t">>,
      <<"h", "t", "t", "p", ":", "/", "/", "h", "/", ".", "j", "s", "o",
        "n">>,
      <<"h", "t", "t", "p", ":", "/", "/", "h", "/", "d", "o", "c", ".",
        "j", "s", "o", "n", "?", "x", "=", "1">>,
      <<"h", "t", "t", "p", ":", "/", "/", "h", "/", "a", "p", "i", "?",
        "f", "o", "r", "m", "a", "t", "=", "j", "s", "o", "n">>,
      <<"h", "t", "t", "p", ":", "/", "/", "h", "/", "a", "p", "i", "?",
        "f", "o", "r", "m", "a", "t", "_", "=", "y", "a", "m", "l">>,
      <<"h", "t", "t", "p", ":", "/", "/", "h", "/", "a", "p", "i", "?",
        "f", "o", "r", "m", "a", "t", "=", "J", "S", "O", "N">>,
      <<"h", "t", "t", "p", ":", "/", "/", "h", "/", "a", "p", "i", "?",
        "x", "=", "1">>,
      <<"h", "t", "t", "p", ":", "/", "/", "h", "/", "a", "p", "i", "?",
        "f", "o", "r", "m", "a", "t", "=", "y", "m", "l", "&", "f", "o",
        "r", "m", "a", "t", "=", "j", "s", "o", "n">>,
      <<"h", "t", "t", "p", ":", "/", "/", "h", "/", "a", "p", "i", "?",
        "f", "o", "r", "m", "a", "t", "_", "=", "j", "s", "o", "n", "&",
        "f", "o", "r", "m", "a", "t", "=", "y", "a", "m", "l">>,
      <<"h", "t", "t", "p", ":", "/", "/", "h", "/", "a", "p", "i", "?",
        "f", "o", "r", "m", "a", "t", "=", "&", "f", "o", "r", "m", "a",
        "t", "_", "=", "y", "m", "l">>,
      <<"h", "t", "t", "p", ":", "/", "/", "h", "/", "a", "p", "i", "?",
        "f", "o", "r", "m", "a", "t", "=", "j", "s", "o", "n", "#", "a",
        ".", "b">>,
      <<"h", "t", "t", "p", ":", "/", "/", "h">>>>

\* The values of its format_ argument: not given, empty, yaml, txt
Formats ==
    {None, Some(<<>>), Some(Tail(Chars_yaml)), Some(<<"t", "x", "t">>)}

\* The paths download is tried on
DownloadPaths ==
    {Chars_original,
     Chars_original \o Chars_json,
     Chars_original \o <<".", "J", "S", "O", "N">>,
     Chars_original \o Chars_yaml,
     Chars_original \o <<".", "Y", "m", "l">>,
     Chars_original \o <<".", "t", "x", "t">>,
     Chars_json}

\* The data urlopen gives: a JSON text that is also YAML, one that is not
\* (it is indented with tabs), a YAML text, and texts neither parser takes,
\* by their first character
Downloads ==
    {[error |-> Some(Exception("URLError", <<>>)), data |-> None]}
    \cup {[error |-> None, data |-> Some(data)] : data \in
            {Text(TRUE, TRUE, Some(Marshal(YamlDocument)), "{", "raw"),
             Text(TRUE, FALSE, Some(Marshal(YamlDocument)), "{", "raw"),
             Text(FALSE, TRUE, Some(Marshal(YamlDocument)), "o", "raw")}
            \cup {Text(FALSE, FALSE, None, first, "raw") :
                    first \in {"{", "[", "\"", "7", "a"}}}

\* fixed.json as update_client may find it: missing, without servers, with
\* an empty list of servers, with servers
FixedFiles ==
    {None}
    \cup {Some(JsonDumps(Marshal(doc))) : doc \in
            {StaleDocument,
             [StaleDocument EXCEPT !.servers = None],
             [StaleDocument EXCEPT !.servers = Some(<<>>)]}}

ScriptInit ==
    /\ entry \in {"download", "update_openapi_original", "update_client"}
    /\ \/ /\ entry = "download"
          /\ todo \in {<<[call |-> "download", response |-> r, path |-> p]>> :
                          r \in Downloads, p \in DownloadPaths}
          /\ fs = NoFiles
       \/ /\ entry = "update_openapi_original"
          /\ todo \in {<<[call |-> "update_openapi_original", url |-> u,
                           format_ |-> f, response |-> r]>> :
                          u \in {Urls[i] : i \in 1..Len(Urls)}
                                 \cup {OPENAPI_DOCUMENT_URL},
                          f \in Formats,
                          r \in {d \in Downloads : d.error = None /\ d.data[1].yaml}}
          /\ fs = NoFiles
       \/ /\ entry = "update_client"
          /\ todo = <<UpdateClient>>
          /\ fs \in {[NoFiles EXCEPT !.fixed = f] : f \in FixedFiles}
    /\ pc = IF entry = "update_client" THEN Start(todo) ELSE "call"
    /\ open_api = None
    /\ client_open_api = None
    /\ exc = None
    /\ log = <<>>
    /\ test = None

\* download(url, path), then get_openapi on the path it returns
CallDownload ==
    /\ pc = "call"
    /\ entry = "download"
    /\ LET r == download(Head(todo).response, Head(todo).path)
       IN  IF r.exc # None
           THEN Propagate(r.exc) /\ UNCHANGED fs
           ELSE /\ fs' = [fs EXCEPT !.original = r.file]
                /\ pc' = "get_openapi_downloaded"
                /\ UNCHANGED exc
    /\ log' = Append(log, "download")
    /\ UNCHANGED <<test, entry, todo, open_api, client_open_api>>

\* get_openapi(openapi_document_path)
CallGetOpenapi ==
    /\ pc = "get_openapi_downloaded"
    /\ LET r == get_openapi(fs.original[1])
       IN  IF r.exc # None
           THEN Propagate(r.exc) /\ UNCHANGED open_api
           ELSE /\ open_api' = Some(r.doc)
                /\ pc' = "done"
                /\ UNCHANGED exc
    /\ log' = Append(log, "get_openapi")
    /\ UNCHANGED <<test, entry, todo, fs, client_open_api>>

\* update_openapi_original(name, format_)
CallUpdateOpenapiOriginal ==
    /\ pc = "call"
    /\ entry = "update_openapi_original"
    /\ LET r == update_openapi_original(Head(todo).url, Head(todo).format_,
                                        Head(todo).response)
       IN  IF r.exc # None
           THEN Propagate(r.exc) /\ UNCHANGED fs
           ELSE /\ fs' = [fs EXCEPT !.original = r.file]
                /\ pc' = "done"
                /\ UNCHANGED exc
    /\ log' = Append(log, "download")
    /\ UNCHANGED <<test, entry, todo, open_api, client_open_api>>

\* Every function of the script, called on its own or by main
ScriptNext ==
    \/ CallDownload
    \/ CallGetOpenapi
    \/ CallUpdateOpenapiOriginal
    \/ Next

ScriptSpec == (Init \/ ScriptInit) /\ [][ScriptNext]_vars

----------------------------------------------------------------------------
(* The tests of the operations an unauthenticated client is refused.  A    *)
(* test calls the generated client against the live service: what a call   *)
(* gives is the service's choice.                                          *)

\* How many entries a list returned by the service has at most
MaxListed == 4

\* islice(..., 3): only the first 3 schemas, and the first 3 items of each
ISLICE == 3

Min(a, b) == IF a < b THEN a ELSE b

\* What a client call may do: return (None) or raise
ClientOutcomes ==
    {None, Some(Exception("URLError", 0))}
    \cup {Some(Exception("HTTPError", code)) : code \in {401, 403, 501}}

\* A test by its shape: "single" is the refused call alone, "after_get"
\* first gets a dataset, "first_dataset" loops over the datasets listed,
\* "revisions" and "revision_id" loop over the items of the schemas listed
RefusalTest(shape, setup, call, code) ==
    [shape |-> shape, setup |-> setup, call |-> call, code |-> code]

RefusalTests ==
    "test_put_metastore_schemas_dataset_items_identifier" :>
        RefusalTest("after_get",
                    "get_metastore_schemas_dataset_items_identifier",
                    "put_metastore_schemas_dataset_items_identifier", 501)
    @@ "test_patch_metastore_schemas_dataset_items_identifier" :>
        RefusalTest("after_get",
                    "get_metastore_schemas_dataset_items_identifier",
                    "patch_metastore_schemas_dataset_items_identifier", 501)
    @@ "test_put_metastore_schemas_dataset_items" :>
        RefusalTest("after_get",
                    "get_metastore_schemas_dataset_items_identifier",
                    "put_metastore_schemas_dataset_items", 501)
    @@ "test_patch_metastore_schemas_dataset_items" :>
        RefusalTest("after_get",
                    "get_metastore_schemas_dataset_items_identifier",
                    "patch_metastore_schemas_dataset_items", 501)
    @@ "test_client_delete_datastore_imports_identifier" :>
        RefusalTest("first_dataset", "get_metastore_schemas_dataset_items",
                    "delete_datastore_imports_identifier", 501)
    @@ "test_client_get_datastore_imports" :>
        RefusalTest("single", "", "get_datastore_imports", 401)
    @@ "test_client_post_datastore_imports" :>
        RefusalTest("single", "", "post_datastore_imports", 401)
    @@ "test_get_harvest_plans" :>
        RefusalTest("single", "", "get_harvest_plans", 401)
    @@ "test_post_harvest_plans" :>
        RefusalTest("single", "", "post_harvest_plans", 401)
    @@ "test_get_harvest_plans_plan_id" :>
        RefusalTest("single", "", "get_harvest_plans_plan_id", 401)
    @@ "test_get_harvest_runs" :>
        RefusalTest("single", "", "get_harvest_runs", 401)
    @@ "test_get_harvest_runs_run_id" :>
        RefusalTest("single", "", "get_harvest_runs_run_id", 401)
    @@ "test_post_harvest_runs" :>
        RefusalTest("single", "", "post_harvest_runs", 401)
    @@ "test_get_metastore_schemas_schema_id_items_identifier_revisions" :>
        RefusalTest("revisions", "get_metastore_schemas",
            "get_metastore_schemas_schema_id_items_identifier_revisions", 401)
    @@ "test_post_metastore_schemas_schema_id_items_identifier_revisions" :>
        RefusalTest("revisions", "get_metastore_schemas",
            "post_metastore_schemas_schema_id_items_identifier_revisions", 401)
    @@ "test_get_metastore_schemas_schema_id_items_identifier_revisions_revision_id" :>
        RefusalTest("revision_id", "get_metastore_schemas",
            "get_metastore_schemas_schema_id_items_identifier_revisions", 401)

\* The test that is run
ThisTest == RefusalTests[entry]

\* A test's locals: the schemas and the items of the current schema still to
\* visit, the revisions of the current item still to get, and items_count;
\* with them the last call made of the client and what it raised (None when
\* it returned), and how many calls of the refused operation were made
NoLocals ==
    [keys |-> 0, items |-> 0, revisions |-> 0, items_count |-> 0,
     request |-> None, calls |-> 0]

\* The locals t once the client has been called
Requested(t, call, outcome) ==
    [t EXCEPT !.request = Some([call |-> call, raised |-> outcome]),
              !.calls = IF call = RefusalTests[entry].call THEN @ + 1 ELSE @]

TestInit ==
    /\ entry \in DOMAIN RefusalTests
    /\ pc = IF ThisTest.shape = "single" THEN "call" ELSE "setup"
    /\ test = NoLocals
    /\ todo = <<>>
    /\ fs = NoFiles
    /\ open_api = None
    /\ client_open_api = None
    /\ exc = None
    /\ log = <<>>

\* The test ends by an exception, with locals t
Fails(e, t) ==
    /\ pc' = "failed"
    /\ exc' = Some(e)
    /\ test' = t

\* The test goes on with locals t: to the next item, to the next schema, or
\* to its end (where one test asserts items_count)
Continues(t) ==
    /\ test' = t
    /\ IF t.items > 0 THEN pc' = "call" /\ UNCHANGED exc
       ELSE IF t.keys > 0 THEN pc' = "items" /\ UNCHANGED exc
       ELSE IF ThisTest.shape = "revision_id" /\ t.items_count = 0
            THEN /\ pc' = "failed"
                 /\ exc' = Some(Exception("AssertionError", 0))
            ELSE pc' = "passed" /\ UNCHANGED exc

\* The call a test makes before its try statement
TestSetup ==
    /\ pc = "setup"
    /\ \E outcome \in ClientOutcomes :
          LET t == Requested(test, ThisTest.setup, outcome)
          IN  IF outcome # None
              THEN Fails(outcome[1], t)
              ELSE IF ThisTest.shape = "after_get"
              THEN pc' = "call" /\ test' = t /\ UNCHANGED exc
              ELSE \E n \in 0..MaxListed :
                      IF ThisTest.shape = "first_dataset"
                      THEN Continues([t EXCEPT !.items = n])
                      ELSE Continues([t EXCEPT !.keys = Min(n, ISLICE)])
    /\ UNCHANGED <<entry, todo, fs, open_api, client_open_api, log>>

\* client.get_metastore_schemas_schema_id_items(key, show_reference_ids=True)
TestItems ==
    /\ pc = "items"
    /\ \E outcome \in ClientOutcomes :
          LET t == Requested(test, "get_metastore_schemas_schema_id_items",
                             outcome)
          IN  IF outcome # None
              THEN Fails(outcome[1], t)
              ELSE \E n \in 0..MaxListed :
                      Continues([t EXCEPT
                          !.keys = @ - 1,
                          !.items = Min(n, ISLICE),
                          !.items_count =
                              IF ThisTest.shape = "revision_id" THEN @ + n
                              ELSE @])
    /\ UNCHANGED <<entry, todo, fs, open_api, client_open_api, log>>

\* A faulty variant of TestCall: the loop over the datasets has no break and
\* goes on to the next dataset after a 501.
TestCallNoBreak ==
    /\ pc = "call"
    /\ \E outcome \in ClientOutcomes :
          LET t == Requested(test, ThisTest.call, outcome)
          IN  IF outcome = None
              THEN IF ThisTest.shape = "revision_id"
                   THEN \E n \in 0..MaxListed :
                           IF n = 0
                           THEN Fails(Exception("RuntimeError", 0), t)
                           ELSE /\ test' = [t EXCEPT !.revisions = n]
                                /\ pc' = "revision"
                                /\ UNCHANGED exc
                   ELSE Fails(Exception("RuntimeError", 0), t)
              ELSE IF outcome[1].type # "HTTPError"
                      \/ outcome[1].arg # ThisTest.code
              THEN Fails(outcome[1], t)
              ELSE IF ThisTest.shape \in {"single", "after_get"}
              THEN pc' = "passed" /\ test' = t /\ UNCHANGED exc
              ELSE Continues([t EXCEPT !.items = @ - 1])
    /\ UNCHANGED <<entry, todo, fs, open_api, client_open_api, log>>

\* try: the refused call; except HTTPError: raise unless error.code is the
\* expected one; else: raise RuntimeError
TestCall ==
    /\ pc = "call"
    /\ \E outcome \in ClientOutcomes :
          LET t == Requested(test, ThisTest.call, outcome)
          IN  IF outcome = None
              THEN IF ThisTest.shape = "revision_id"
                   THEN \E n \in 0..MaxListed :
                           IF n = 0
                           THEN Fails(Exception("RuntimeError", 0), t)
                           ELSE /\ test' = [t EXCEPT !.revisions = n]
                                /\ pc' = "revision"
                                /\ UNCHANGED exc
                   ELSE Fails(Exception("RuntimeError", 0), t)
              ELSE IF outcome[1].type # "HTTPError"
                      \/ outcome[1].arg # ThisTest.code
              THEN Fails(outcome[1], t)
              ELSE IF ThisTest.shape \in {"single", "after_get"}
              THEN pc' = "passed" /\ test' = t /\ UNCHANGED exc
              ELSE IF ThisTest.shape = "first_dataset"
              THEN \* break
                   pc' = "passed" /\ test' = t /\ UNCHANGED exc
              ELSE Continues([t EXCEPT !.items = @ - 1])
    /\ UNCHANGED <<entry, todo, fs, open_api, client_open_api, log>>

\* for revision in ...: client.get_..._revisions_revision_id(...), inside the
\* same try statement
TestRevision ==
    /\ pc = "revision"
    /\ \E outcome \in ClientOutcomes :
          LET t == Requested(test,
                    "get_metastore_schemas_schema_id_items_identifier_revisions_revision_id",
                    outcome)
          IN  IF outcome = None
              THEN IF test.revisions = 1
                   THEN Fails(Exception("RuntimeError", 0),
                              [t EXCEPT !.revisions = 0])
                   ELSE /\ test' = [t EXCEPT !.revisions = @ - 1]
                        /\ UNCHANGED <<pc, exc>>
              ELSE IF outcome[1].type # "HTTPError"
                      \/ outcome[1].arg # ThisTest.code
              THEN Fails(outcome[1], t)
              ELSE Continues([t EXCEPT !.items = @ - 1, !.revisions = 0])
    /\ UNCHANGED <<entry, todo, fs, open_api, client_open_api, log>>

TestNext ==
    \/ TestSetup
    \/ TestItems
    \/ TestCall
    \/ TestRevision

TestSpec == TestInit /\ [][TestNext]_vars

----------------------------------------------------------------------------
(* Properties *)

\* Whether the run has made the call
Called(name) == \E i \in 1..Len(log) : log[i] = name

IsPrefix(s, t) == Len(s) <= Len(t) /\ SubSeq(t, 1, Len(s)) = s

\* The document get_openapi made of the downloaded file
Parsed == get_openapi(fs.original[1]).doc

\* The fixed.json the run found on disk when it started
FoundFixed == {None, Some(JsonDumps(Marshal(StaleDocument)))}

\* The calls of a complete run of main
MainSteps ==
    <<"download", "get_openapi", "fix_openapi", "write_fixed",
      "write_model_module", "get_openapi_fixed", "write_client_module">>

\* C1: a run of main makes its calls in the order download, parse, fix,
\* write fixed.json, write the model module, read fixed.json, write the
\* client module; a finished run has made them all; and a client module
\* exists only after this run wrote fixed.json, and is generated from the
\* document get_openapi makes of that file.
C1_MainOrder ==
    entry = "main" =>
        /\ IsPrefix(log, MainSteps)
        /\ pc = "done" => log = MainSteps
        /\ fs.client_py # None =>
            /\ Called("write_fixed")
            /\ fs.fixed = Some(JsonDumps(Marshal(open_api[1])))
            /\ fs.client_py[1].open_api =
                  get_openapi([path |-> Chars_fixed_json,
                               data |-> fs.fixed[1]]).doc

C1_Witness ==
    /\ entry = "main"
    /\ pc = "done"
    /\ fs.client_py # None
    /\ Some(JsonDumps(Marshal(StaleDocument))) # fs.fixed

\* The index of the first path key of the parsed document that does not
\* start with the prefix (0 when every key does)
FirstOffending ==
    LET keys == Keys(Parsed.paths)
        bad == {i \in 1..Len(keys) : ~StartsWith(keys[i], PATH_PREFIX)}
    IN  IF bad = {} THEN 0 ELSE CHOOSE i \in bad : \A j \in bad : i <= j

\* C2: when the parsed document has a path key without the prefix, the fix
\* raises ValueError with the first such key, and at that moment every key
\* from the offending one on is still a key of the document, every path
\* item is one of the original path items (no copy, no added parameter, no
\* changed type), and the components are the original ones but for the
\* datasets schema added before the loop.
C2_ValueErrorImmediately ==
    (Called("fix_openapi") /\ pc \notin {"fix_paths"} /\ FirstOffending # 0) =>
        LET keys == Keys(Parsed.paths)
            now == open_api[1]
        IN  /\ pc = "raised"
            /\ exc = Some(Exception("ValueError", keys[FirstOffending]))
            /\ \A i \in FirstOffending..Len(keys) :
                  /\ HasKey(now.paths, keys[i])
                  /\ i > FirstOffending =>
                        \/ HasKey(Parsed.paths, SliceFrom(keys[i], PREFIX_CUT))
                        \/ ~HasKey(now.paths, SliceFrom(keys[i], PREFIX_CUT))
            /\ \A n \in 1..Len(now.paths) :
                  \E i \in 1..Len(keys) :
                      now.paths[n].item = Parsed.paths[i].item
            /\ now.components.parameters = Parsed.components.parameters
            /\ now.components.responses = Parsed.components.responses
            /\ now.components.schemas =
                  ("datasets" :> DATASETS_SCHEMA) @@ Parsed.components.schemas

C2_Witness ==
    /\ pc = "raised"
    /\ exc # None
    /\ exc[1].type = "ValueError"
    /\ FirstOffending = 1
    /\ Len(Parsed.paths) > 1

\* C3: an exception raised by the download, the parse or the fix ends the
\* run as it was raised: nothing can follow it, fixed.json is as the run
\* found it, neither module was written and update_client was not started.
C3_NoRecovery ==
    exc # None =>
        /\ pc = "raised"
        /\ ~ENABLED Next
        /\ log[Len(log)] \in {"download", "get_openapi", "fix_openapi"}
        /\ log[Len(log)] = "download" =>
              exc = Some(Exception("URLError", <<>>))
        /\ log[Len(log)] = "get_openapi" =>
              exc = get_openapi(fs.original[1]).exc
        /\ log[Len(log)] = "fix_openapi" =>
              exc = fix_provider_data_openapi(Parsed).exc
        /\ fs.fixed \in FoundFixed
        /\ fs.model_py = None
        /\ fs.client_py = None
        /\ todo = main \/ todo = update_model_alone
        /\ ~Called("write_fixed")
        /\ ~Called("write_model_module")
        /\ ~Called("get_openapi_fixed")
        /\ ~Called("write_client_module")

C3_Witness ==
    /\ entry = "main"
    /\ pc = "raised"
    /\ exc # None
    /\ exc[1].type = "ValueError"
    /\ fs.fixed # None

\* The document in memory
Now == open_api[1]

\* The callback has returned without raising
FixReturned ==
    Called("fix_openapi") /\ pc \notin {"fix_paths", "fix_patches", "raised"}

\* C4 (as claimed): when every path key of the parsed document starts with
\* the prefix, then after the renaming loop each original key K is replaced
\* by K[20:], which starts with "/" and maps to the path item K mapped to,
\* and K is no longer a key.
C4_PrefixRemoval ==
    (pc = "fix_patches" /\ FirstOffending = 0) =>
        \A i \in 1..Len(Parsed.paths) :
            LET K == Parsed.paths[i].key
                stripped == SubSeq(K, 21, Len(K))
            IN  /\ stripped[1] = "/"
                /\ HasKey(Now.paths, stripped)
                /\ GetItem(Now.paths, stripped) = Parsed.paths[i].item
                /\ ~HasKey(Now.paths, K)

\* C5: once the fix has started, a document parsed without servers (absent
\* or empty) has exactly one server, with url
\* "https://data.cms.gov/provider-data/api/1", and a document parsed with
\* servers has the servers it was parsed with.
C5_ServerBlock ==
    Called("fix_openapi") =>
        IF Parsed.servers = None \/ Parsed.servers[1] = <<>>
        THEN /\ Now.servers # None
             /\ Len(Now.servers[1]) = 1
             /\ Now.servers[1][1].url =
                   "https://data.cms.gov/provider-data/api/1"
        ELSE Now.servers = Parsed.servers

C5_Witness ==
    /\ FixReturned
    /\ Parsed.servers = Some(<<>>)

\* C6: after a successful fix the document has the path
\* "/metastore/schemas/dataset/items", whose GET has the summary "Get all
\* datasets." and a 200 application/json schema referring to
\* "#/components/schemas/datasets", and the schema datasets is an array of
\* references to "#/components/schemas/dataset".
C6_AllDatasetsPath ==
    FixReturned =>
        /\ HasKey(Now.paths, METASTORE_SCHEMAS_DATASET_ITEMS)
        /\ LET get == GetItem(Now.paths, METASTORE_SCHEMAS_DATASET_ITEMS).get
               schema ==
                  get.responses["200"].content["application/json"].schema
           IN  /\ get.summary = "Get all datasets."
               /\ IsReference(schema)
               /\ schema.ref = "#/components/schemas/datasets"
        /\ "datasets" \in DOMAIN Now.components.schemas
        /\ LET datasets == Now.components.schemas["datasets"]
           IN  /\ datasets.type_ = Some("array")
               /\ "items" \in DOMAIN datasets
               /\ datasets.items = [ref |-> "#/components/schemas/dataset"]

\* a document that declared a datasets schema and the all-datasets path
C6_Witness ==
    /\ FixReturned
    /\ "datasets" \in DOMAIN Parsed.components.schemas
    /\ HasKey(Parsed.paths, API_ROOT \o METASTORE_SCHEMAS_DATASET_ITEMS)

\* C7: after a successful fix the path item
\* "/metastore/schemas/dataset/items/{identifier}" is the one the document
\* was parsed with: its summary, its parameters (the datasetUuid reference
\* among them) and its response schema are unchanged.
C7_DeepCopy ==
    FixReturned =>
        LET was == GetItem(Parsed.paths,
                      API_ROOT \o METASTORE_SCHEMAS_DATASET_ITEMS_IDENTIFIER)
            is == GetItem(Now.paths,
                      METASTORE_SCHEMAS_DATASET_ITEMS_IDENTIFIER)
        IN  /\ is = was
            /\ is.get.summary # "Get all datasets."
            /\ is.get.responses["200"].content["application/json"].schema
                  = [ref |-> "#/components/schemas/dataset"]

\* the copy lost a datasetUuid reference that the original still lists
C7_Witness ==
    /\ FixReturned
    /\ LET is == GetItem(Now.paths,
                     METASTORE_SCHEMAS_DATASET_ITEMS_IDENTIFIER).get
           copy == GetItem(Now.paths, METASTORE_SCHEMAS_DATASET_ITEMS).get
       IN  /\ is.parameters # None
           /\ \E i \in 1..Len(is.parameters[1]) :
                 is.parameters[1][i] = [ref |-> DATASET_UUID]
           /\ Len(copy.parameters[1]) < Len(is.parameters[1])

\* The names and schema references of the parameters C8 speaks of
C8_Names ==
    <<"resources", "properties", "conditions", "joins", "groupings", "sorts">>

C8_Refs ==
    <<"#/components/schemas/datastoreQuery/properties/resources",
      "#/components/schemas/datastoreQuery/properties/properties",
      "#/components/schemas/datastoreQuery/properties/conditions",
      "#/components/schemas/datastoreQuery/properties/joins",
      "#/components/schemas/datastoreQuery/properties/groupings",
      "#/components/schemas/datastoreQuery/properties/sorts">>

C8_Paths ==
    <<DATASTORE_QUERY,
      DATASTORE_QUERY \o DOWNLOAD,
      DATASTORE_QUERY_DISTRIBUTION_ID,
      DATASTORE_QUERY_DISTRIBUTION_ID \o DOWNLOAD,
      DATASTORE_QUERY_DATASET_ID_INDEX,
      DATASTORE_QUERY_DATASET_ID_INDEX \o DOWNLOAD>>

\* C8: after a successful fix the parameter list of each of the six
\* datastore query GET operations is the list it was parsed with followed
\* by six optional deepObject query parameters named resources, properties,
\* conditions, joins, groupings, sorts, each referring to its property of
\* the datastoreQuery schema, and these six are the same for all six
\* operations.
C8_QueryParameters ==
    FixReturned =>
        \A k \in 1..6 :
            LET was == GetItem(Parsed.paths, API_ROOT \o C8_Paths[k])
                          .get.parameters[1]
                is == GetItem(Now.paths, C8_Paths[k]).get.parameters
                first == GetItem(Now.paths, C8_Paths[1]).get.parameters[1]
            IN  /\ is # None
                /\ Len(is[1]) = Len(was) + 6
                /\ SubSeq(is[1], 1, Len(was)) = was
                /\ \A n \in 1..6 :
                      LET p == is[1][Len(was) + n]
                      IN  /\ ~IsReference(p)
                          /\ p.name = C8_Names[n]
                          /\ p.in_ = "query"
                          /\ p.required = FALSE
                          /\ p.style = Some("deepObject")
                          /\ p.schema = [ref |-> C8_Refs[n]]
                          /\ p = first[Len(first) - 6 + n]

\* an operation that had three parameters of its own
C8_Witness ==
    /\ FixReturned
    /\ Len(GetItem(Now.paths, DATASTORE_QUERY_DATASET_ID_INDEX_DOWNLOAD)
              .get.parameters[1]) = 9

\* The calls of a complete update_model without a callback
UpdateModelSteps ==
    <<"download", "get_openapi", "write_fixed", "write_model_module">>

\* C9: update_model calls the callback it is given once, on the parsed
\* document, before it writes fixed.json and the model module, and writes
\* both from the document as the callback left it; without a callback it
\* writes both from the document as parsed.
C9_FixBeforeModel ==
    /\ Called("write_fixed") =>
          fs.fixed = Some(JsonDumps(Marshal(Now)))
    /\ fs.model_py # None =>
          /\ fs.model_py[1].open_api = Now
          /\ fs.fixed = Some(JsonDumps(Marshal(fs.model_py[1].open_api)))
    /\ (Called("write_fixed") \/ Called("write_model_module")) =>
          IF entry = "main"
          THEN /\ IsPrefix(SubSeq(MainSteps, 1, 4), log)
               /\ Now = fix_provider_data_openapi(Parsed).doc
               /\ fix_provider_data_openapi(Parsed).exc = None
          ELSE /\ IsPrefix(SubSeq(UpdateModelSteps, 1, 3), log)
               /\ ~Called("fix_openapi")
               /\ Now = Parsed

\* the model module of a run whose callback changed the document
C9_Witness ==
    /\ entry = "main"
    /\ fs.model_py # None
    /\ fs.model_py[1].open_api # Parsed

\* C10: after a successful fix the total of the /search response, of the
\* /search/facets response and of the facets items has no type and any_of
\* (string, integer); the results of the /search and /search/facets
\* responses have no type and any_of (object, array); and the /search/facets
\* total and results are those of /search.
C10_SearchTypes ==
    FixReturned =>
        LET search == GetItem(Now.paths, SEARCH).get
                         .responses["200"].content["application/json"]
                         .schema.properties
            facets == GetItem(Now.paths, SEARCH_FACETS).get
                         .responses["200"].content["application/json"]
                         .schema.properties
            items == Now.components.schemas["facets"].items.properties
            string_or_integer ==
                Some(<<[type_ |-> Some("string"), any_of |-> None,
                        description |-> None],
                       [type_ |-> Some("integer"), any_of |-> None,
                        description |-> None]>>)
            object_or_array ==
                Some(<<[type_ |-> Some("object"), any_of |-> None,
                        description |-> None],
                       [type_ |-> Some("array"), any_of |-> None,
                        description |-> None]>>)
        IN  /\ \A total \in {search["total"], facets["total"], items["total"]} :
                  total.type_ = None /\ total.any_of = string_or_integer
            /\ \A results \in {search["results"], facets["results"]} :
                  results.type_ = None /\ results.any_of = object_or_array
            /\ facets["total"] = search["total"]
            /\ facets["results"] = search["results"]

\* a document whose /search/facets response declared its own total
C10_Witness ==
    /\ FixReturned
    /\ LET was == GetItem(Parsed.paths, API_ROOT \o SEARCH_FACETS).get
                     .responses["200"].content["application/json"]
                     .schema.properties
       IN  "total" \in DOMAIN was /\ was["total"].type_ = Some("number")

\* The last call the test made was of the operation it expects refused
CalledRefused ==
    /\ test.request # None
    /\ test.request[1].call \in
          {ThisTest.call}
          \cup (IF ThisTest.shape = "revision_id"
                THEN {"get_metastore_schemas_schema_id_items_identifier_revisions_revision_id"}
                ELSE {})

\* C11 (as claimed): a test of a refused operation passes only when it has
\* called that operation and the call raised HTTPError with the expected
\* code; a call that raises HTTPError with another code ends the test with
\* that error, a call that returns ends it with RuntimeError, and in the
\* tests that make the call once the expected error makes the test pass.
C11_RefusalTests ==
    /\ pc = "passed" => test.calls >= 1
    /\ CalledRefused =>
          LET raised == test.request[1].raised
          IN  /\ raised = None =>
                    \/ pc = "failed" /\ exc[1].type = "RuntimeError"
                    \/ /\ test.request[1].call = ThisTest.call
                       /\ ThisTest.shape = "revision_id"
              /\ raised # None /\ raised[1].type = "HTTPError" =>
                    IF raised[1].arg = ThisTest.code
                    THEN ThisTest.shape \in {"single", "after_get"}
                            => pc = "passed"
                    ELSE pc = "failed" /\ exc = raised

\* s without its entries equal to x, in order
RECURSIVE Without(_, _)
Without(s, x) ==
    IF s = <<>> THEN <<>>
    ELSE IF Head(s) = x THEN Without(Tail(s), x)
    ELSE <<Head(s)>> \o Without(Tail(s), x)

\* C12: after a successful fix the GET operation of the all-datasets path
\* has a parameter list: the parameters the single-dataset GET operation had
\* (none when it had no list), in their order, without the references to
\* "#/components/parameters/datasetUuid".
C12_CopiedParameters ==
    FixReturned =>
        LET was == GetItem(Parsed.paths,
                      API_ROOT \o METASTORE_SCHEMAS_DATASET_ITEMS_IDENTIFIER)
                      .get.parameters
            copy == GetItem(Now.paths, METASTORE_SCHEMAS_DATASET_ITEMS)
                      .get.parameters
        IN  /\ copy # None
            /\ copy[1] = Without(IF was = None THEN <<>> ELSE was[1],
                                 [ref |-> DATASET_UUID])

\* the single-dataset operation listed an inline parameter and a reference
\* to another parameter among two datasetUuid references
C12_Witness ==
    /\ FixReturned
    /\ GetItem(Parsed.paths,
               API_ROOT \o METASTORE_SCHEMAS_DATASET_ITEMS_IDENTIFIER)
           .get.parameters
       = Some(<<FormatParameter, [ref |-> DATASET_UUID],
                [ref |-> "#/components/parameters/showReferenceIds"],
                [ref |-> DATASET_UUID]>>)
    /\ GetItem(Now.paths, METASTORE_SCHEMAS_DATASET_ITEMS).get.parameters
       = Some(<<FormatParameter,
                [ref |-> "#/components/parameters/showReferenceIds"]>>)

\* The description mentions POST, in capitals
MentionsPOST(description) ==
    /\ description # None
    /\ \E i \in 1..(Len(description[1]) - 3) :
          /\ description[1][i] = "P"
          /\ description[1][i + 1] = "O"
          /\ description[1][i + 2] = "S"
          /\ description[1][i + 3] = "T"

\* C13: after a successful fix each of the six datastore query GET
\* operations has no description when its description mentioned "POST", and
\* the description it had otherwise (none, empty, or "Post" in another
\* case); every other operation of the document has the description it was
\* parsed with, the all-datasets operation that of the operation it copies.
C13_Descriptions ==
    FixReturned =>
        /\ \A k \in 1..Len(QueryPointerOrder) :
              LET was == GetItem(Parsed.paths, API_ROOT \o QueryPointerOrder[k])
                             .get.description
                  is == GetItem(Now.paths, QueryPointerOrder[k])
                             .get.description
              IN  is = IF MentionsPOST(was) THEN None ELSE was
        /\ \A i \in 1..Len(Now.paths) :
              (\A k \in 1..Len(QueryPointerOrder) :
                    Now.paths[i].key # QueryPointerOrder[k])
              => \E j \in 1..Len(Parsed.paths) :
                    /\ Parsed.paths[j].item.get.description
                          = Now.paths[i].item.get.description
                    /\ \/ Parsed.paths[j].item.get.summary
                             = Now.paths[i].item.get.summary
                       \/ /\ Now.paths[i].key = METASTORE_SCHEMAS_DATASET_ITEMS
                          /\ Parsed.paths[j].key = API_ROOT \o
                                METASTORE_SCHEMAS_DATASET_ITEMS_IDENTIFIER

\* one query operation lost its "see POST", another kept its "Post", a third
\* its empty description, and an operation that is none of the six still
\* mentions POST
C13_Witness ==
    /\ FixReturned
    /\ \E k \in 1..Len(QueryPointerOrder) :
          /\ GetItem(Parsed.paths, API_ROOT \o QueryPointerOrder[k])
                 .get.description = Some(Chars_see_POST)
          /\ GetItem(Now.paths, QueryPointerOrder[k]).get.description = None
    /\ \E k \in 1..Len(QueryPointerOrder) :
          GetItem(Now.paths, QueryPointerOrder[k]).get.description
              = Some(Chars_Post)
    /\ \E k \in 1..Len(QueryPointerOrder) :
          GetItem(Now.paths, QueryPointerOrder[k]).get.description = Some(<<>>)
    /\ \E i \in 1..Len(Now.paths) :
          Now.paths[i].item.get.description = Some(Chars_see_POST)

\* The function f without its value at key
Except(f, key) == [k \in DOMAIN f \ {key} |-> f[k]]

\* C14: after a successful fix the "schema" property of component response
\* 200JsonOrCsvQueryOk is any_of <<the schema it was, an array schema>>;
\* component parameter datastoreDistributionIndex has a schema of type
\* integer; schema dataset has the string property landingPage and the
\* items of datastoreQuery's resources the string property id, and their
\* other properties are as they were.
C14_ComponentFixes ==
    FixReturned =>
        LET Ok(doc) == doc.components.responses["200JsonOrCsvQueryOk"]
                           .content["application/json"].schema.properties
            Dataset(doc) == doc.components.schemas["dataset"].properties
            Resource(doc) == doc.components.schemas["datastoreQuery"]
                                 .properties["resources"].items.properties
            string == [type_ |-> Some("string"), any_of |-> None,
                       description |-> None]
            array == [type_ |-> Some("array"), any_of |-> None,
                      description |-> None]
        IN  /\ Ok(Now)["schema"].any_of = Some(<<Ok(Parsed)["schema"], array>>)
            /\ Ok(Now)["schema"].type_ = None
            /\ Except(Ok(Now), "schema") = Except(Ok(Parsed), "schema")
            /\ Now.components.parameters["datastoreDistributionIndex"]
                  .schema.type_ = Some("integer")
            /\ Dataset(Now)["landingPage"] = string
            /\ Except(Dataset(Now), "landingPage")
                  = Except(Dataset(Parsed), "landingPage")
            /\ Resource(Now)["id"] = string
            /\ Except(Resource(Now), "id") = Except(Resource(Parsed), "id")

\* the fix has returned on a document whose index parameter was a string and
\* whose dataset and resource schemas lacked the two properties
C14_Witness ==
    /\ FixReturned
    /\ Parsed.components.parameters["datastoreDistributionIndex"]
          .schema.type_ = Some("string")
    /\ "landingPage" \notin DOMAIN Parsed.components.schemas["dataset"].properties
    /\ "id" \notin DOMAIN Parsed.components.schemas["datastoreQuery"]
                       .properties["resources"].items.properties
    /\ Parsed.components.responses["200JsonOrCsvQueryOk"]
          .content["application/json"].schema.properties["schema"].type_
       = Some("object")
    /\ "title" \in DOMAIN Now.components.schemas["dataset"].properties

\* download was called on its own and has written its file
Downloaded ==
    /\ entry = "download"
    /\ fs.original # None

\* C15: the file download has written is at the path it was given when that
\* path ends in .json, .JSON, .yaml or .Yml; at any other path (no suffix, a
\* leading dot only, .txt) it is at the path given followed by ".json" for
\* data that parses as JSON, else ".yaml" for data that parses as YAML, else
\* ".json" for data that starts with "{", "[", a double quote or a digit,
\* else ".yaml".
C15_DownloadExtension ==
    Downloaded =>
        LET path == Head(todo).path
            data == Head(todo).response.data[1]
            written == fs.original[1].path
            recognised ==
                {Chars_original \o <<".", "j", "s", "o", "n">>,
                 Chars_original \o <<".", "J", "S", "O", "N">>,
                 Chars_original \o <<".", "y", "a", "m", "l">>,
                 Chars_original \o <<".", "Y", "m", "l">>}
            json == <<".", "j", "s", "o", "n">>
            yaml == <<".", "y", "a", "m", "l">>
        IN  IF path \in recognised THEN written = path
            ELSE written = path \o
                    (IF data.json THEN json
                     ELSE IF data.yaml THEN yaml
                     ELSE IF data.first \in {"{", "[", "\"", "7"} THEN json
                     ELSE yaml)

\* a JSON text that is also YAML was written to "original.txt.json", and a
\* JSON text went unread to "original.Yml"
C15_Witness ==
    /\ Downloaded
    /\ Head(todo).response.data[1].json
    /\ Head(todo).response.data[1].yaml
    /\ \/ /\ Head(todo).path = Chars_original \o <<".", "t", "x", "t">>
          /\ fs.original[1].path =
                Chars_original \o <<".", "t", "x", "t", ".", "j", "s", "o", "n">>
       \/ /\ Head(todo).path = Chars_original \o <<".", "Y", "m", "l">>
          /\ fs.original[1].path = Head(todo).path

\* C16: once urlopen has given data, download writes a file and raises
\* nothing: at a path ending in .json (in any case) the file holds the JSON
\* value of the data written with indent=4 when the data parses as JSON, and
\* the data as downloaded when it does not; at a path ending in .yaml or
\* .yml it holds the data as downloaded.
C16_DownloadWrites ==
    /\ entry = "download" /\ Called("download")
       /\ Head(todo).response.error = None
       => /\ fs.original # None
          /\ ~Called("get_openapi") => pc # "raised" /\ exc = None
    /\ Downloaded =>
          LET data == Head(todo).response.data[1]
              written == fs.original[1]
              n == Len(written.path)
              ends_json ==
                  /\ n >= 5
                  /\ written.path[n - 4] = "."
                  /\ written.path[n - 3] \in {"j", "J"}
                  /\ written.path[n - 2] \in {"s", "S"}
                  /\ written.path[n - 1] \in {"o", "O"}
                  /\ written.path[n] \in {"n", "N"}
          IN  IF ends_json /\ data.json
              THEN /\ written.data.form = "indent4"
                   /\ written.data.json
                   /\ written.data.value = data.value
              ELSE written.data = data

\* unparseable data was written as it came to a path ending in .json, and
\* JSON data was written anew to "original.JSON"
C16_Witness ==
    /\ Downloaded
    /\ \/ /\ ~Head(todo).response.data[1].json
          /\ ~Head(todo).response.data[1].yaml
          /\ fs.original[1].path = Chars_original \o Chars_json
          /\ fs.original[1].data = Head(todo).response.data[1]
       \/ /\ Head(todo).response.data[1].json
          /\ fs.original[1].path = Chars_original \o <<".", "J", "S", "O", "N">>
          /\ fs.original[1].data.form = "indent4"

\* The extension of the name update_openapi_original passes to download for
\* each of Urls in turn, when no format is given: none for ".../api/1/",
\* json, yaml and yml for the file names openapi.json, openapi.YAML and
\* openapi.yml, none for doc.txt, for .json (nothing before the dot) and for
\* "doc.json?x=1" (the format is "json?x=1"); json for ?format=json, yaml for
\* ?format_=yaml, none for ?format=JSON and for ?x=1, yml for
\* ?format=yml&format=json, yaml for ?format_=json&format=yaml, yml for
\* ?format=&format_=yml, none for "?format=json#a.b" (the format is "b")
\* and for "http://h" (no dot, no query string)
C17_Extensions ==
    <<<<>>,
      <<".", "j", "s", "o", "n">>,
      <<".", "y", "a", "m", "l">>,
      <<".", "y", "m", "l">>,
      <<>>,
      <<>>,
      <<>>,
      <<".", "j", "s", "o", "n">>,
      <<".", "y", "a", "m", "l">>,
      <<>>,
      <<>>,
      <<".", "y", "m", "l">>,
      <<".", "y", "a", "m", "l">>,
      <<".", "y", "m", "l">>,
      <<>>,
      <<>> >>

\* update_openapi_original was called on its own, without a format, and has
\* returned
OriginalUpdated ==
    /\ entry = "update_openapi_original"
    /\ fs.original # None
    /\ Head(todo).format_ = None

\* C17: update_openapi_original, given no format, saves the document of the
\* configured URL as "original" followed by the extension download chooses,
\* and the document of each of the other URLs under the name the URL's file
\* extension or its format / format_ query parameter gives: "original" with
\* the extension json, yaml or yml when that is the format, and "original"
\* followed by the extension download chooses otherwise.
C17_OriginalName ==
    OriginalUpdated =>
        LET url == Head(todo).url
            data == Head(todo).response.data[1]
            written == fs.original[1].path
            original == <<"o", "r", "i", "g", "i", "n", "a", "l">>
            chosen == IF data.json THEN <<".", "j", "s", "o", "n">>
                      ELSE <<".", "y", "a", "m", "l">>
            Expected(extension) ==
                original \o (IF extension = <<>> THEN chosen ELSE extension)
        IN  /\ url = OPENAPI_DOCUMENT_URL => written = Expected(<<>>)
            /\ \A i \in 1..Len(Urls) :
                  url = Urls[i] => written = Expected(C17_Extensions[i])

\* YAML was saved as "original.yml" for ".../openapi.yml//", and as
\* "original.yaml" for the configured URL
C17_Witness ==
    /\ OriginalUpdated
    /\ ~Head(todo).response.data[1].json
    /\ \/ /\ Head(todo).url = Urls[4]
          /\ fs.original[1].path = Chars_original \o Chars_yml
       \/ /\ Head(todo).url = OPENAPI_DOCUMENT_URL
          /\ fs.original[1].path = Chars_original \o Chars_yaml

\* get_openapi has been called on the file download wrote
ParsedOriginal == entry # "update_client" /\ Called("get_openapi")

\* C18: get_openapi reads the downloaded file with the YAML parser when its
\* path ends in .yaml or .yml, in any case, and with the JSON parser
\* otherwise: it raises that parser's error when the parser refuses the
\* file's text and gives the document of the text otherwise.  In
\* update_model a file written anew as JSON is "original.json" and parses,
\* and a file "original.json" that holds text neither parser takes ends the
\* run with JSONDecodeError before the fix is called or fixed.json written.
C18_ParserChoice ==
    ParsedOriginal =>
        LET file == fs.original[1]
            n == Len(file.path)
            ends_yaml ==
                /\ n >= 5
                /\ file.path[n - 4] = "."
                /\ file.path[n - 3] \in {"y", "Y"}
                /\ file.path[n - 2] \in {"a", "A"}
                /\ file.path[n - 1] \in {"m", "M"}
                /\ file.path[n] \in {"l", "L"}
            ends_yml ==
                /\ n >= 4
                /\ file.path[n - 3] = "."
                /\ file.path[n - 2] \in {"y", "Y"}
                /\ file.path[n - 1] \in {"m", "M"}
                /\ file.path[n] \in {"l", "L"}
            parses == IF ends_yaml \/ ends_yml THEN file.data.yaml
                      ELSE file.data.json
            error == IF ends_yaml \/ ends_yml THEN "YAMLError"
                     ELSE "JSONDecodeError"
        IN  /\ IF parses
               THEN /\ open_api # None
                    /\ Len(log) = 2 =>
                          /\ exc = None
                          /\ Marshal(open_api[1]) = file.data.value[1]
               ELSE /\ pc = "raised"
                    /\ exc # None /\ exc[1].type = error
                    /\ open_api = None
            /\ entry \in {"main", "update_model"} =>
                  /\ file.data.form = "indent4" =>
                        /\ file.path = <<"o", "r", "i", "g", "i", "n", "a", "l",
                                         ".", "j", "s", "o", "n">>
                        /\ open_api # None
                  /\ ~file.data.json /\ ~file.data.yaml
                     /\ file.path = <<"o", "r", "i", "g", "i", "n", "a", "l",
                                      ".", "j", "s", "o", "n">> =>
                        /\ pc = "raised"
                        /\ exc[1].type = "JSONDecodeError"
                        /\ ~Called("fix_openapi")
                        /\ fs.fixed \in FoundFixed
                        /\ fs.model_py = None

\* a YAML text at "original.Yml" gave its document, and update_model stopped
\* at an "original.json" that holds text neither parser takes
C18_Witness ==
    /\ ParsedOriginal
    /\ \/ /\ fs.original[1].path = Chars_original \o <<".", "Y", "m", "l">>
          /\ ~fs.original[1].data.json
          /\ open_api # None
       \/ /\ entry = "main"
          /\ fs.original[1].path = Chars_original \o Chars_json
          /\ ~fs.original[1].data.json
          /\ pc = "raised"

C20_RenamingKeepsItems ==
    (pc = "fix_patches" /\ FirstOffending = 0) =>
        /\ Len(Now.paths) = Len(Parsed.paths)
        /\ \A i \in 1..Len(Now.paths) :
              LET K == Now.paths[i].key
              IN  ~(/\ Len(K) >= 21
                    /\ SubSeq(K, 1, 20) = API_ROOT
                    /\ K[21] = "/")

\* C21: test_client_delete_datastore_imports_identifier calls
\* delete_datastore_imports_identifier at most once, however many datasets
\* are listed: the one call ends the test, which passes when it raised
\* HTTPError 501, fails with the HTTPError raised when its code is another,
\* and fails with RuntimeError when the call returned; with no dataset listed
\* the test passes without the call.
C21_DeleteOnce ==
    entry = "test_client_delete_datastore_imports_identifier" =>
        /\ test.calls <= 1
        /\ test.calls = 1 =>
              LET raised == test.request[1].raised
              IN  /\ test.request[1].call = "delete_datastore_imports_identifier"
                  /\ test.items >= 1
                  /\ pc \in {"passed", "failed"}
                  /\ raised = None =>
                        pc = "failed" /\ exc[1].type = "RuntimeError"
                  /\ raised # None /\ raised[1].type = "HTTPError" =>
                        IF raised[1].arg = 501
                        THEN pc = "passed" /\ exc = None
                        ELSE pc = "failed" /\ exc = raised
        /\ (pc = "call" \/ test.calls = 1) <=> test.items >= 1
        /\ test.request # None /\ test.request[1].raised = None
           /\ test.items = 0 =>
              pc = "passed" /\ test.calls = 0

\* several datasets were listed and the test has passed after one call
C21_Witness ==
    /\ entry = "test_client_delete_datastore_imports_identifier"
    /\ test.items >= 2
    /\ test.calls = 1
    /\ pc = "passed"

============================================================================
